---- MODULE Spec2Model ----
(***************************************************************************)
(* Model of the record fuser of src/src/fusion.py (fuse_results and its    *)
(* helpers), of the zone filter of the same file, of the address           *)
(* comparator of src/src/address_comparator.py and of the worker thread    *)
(* CompleteWorkflowWorker of src/src/ui.py.                                *)
(*                                                                         *)
(* Encoding of Python values:                                              *)
(*   - None (and a missing dict key read with .get) is the empty tuple,    *)
(*     a present value v is the one-element tuple <<v>>;                   *)
(*   - a str that the code only copies or tests for truth is a TLA+        *)
(*     string; a str that the code transforms (addresses, address          *)
(*     components, address keys) is a sequence of one-character strings;   *)
(*   - a float coordinate is an integer number of 1e-5 degrees;            *)
(*   - a dict is a function whose DOMAIN is the set of keys present;       *)
(*   - an object reference kept in an index is the position of the object  *)
(*     in its input list.                                                  *)
(***************************************************************************)
EXTENDS Integers, Sequences, FiniteSets, TLC

VARIABLES
    pj_results,            \* input list of DataPJ
    entreprise_results,    \* input list of EntrepriseData
    entreprise_by_addr,    \* dict: address key -> registry record (position)
    entreprise_by_coords,  \* dict: coordinate bucket -> registry record (position)
    matched_ent_keys,      \* set of consumed keys
    fused,                 \* output list under construction
    origin,                \* for each element of fused, the input record(s) it was built from
    pc,                    \* position in fuse_results
    i,                     \* index of the running for loop
    call,                  \* the call of a function in progress: its name and arguments
    result,                \* None while the call runs, Some(returned value) after
    in_zone,               \* filter: positions of the entries kept as in the zone
    out_zone_interesting,  \* filter: positions of the entries kept as interesting
    out_zone_excluded,     \* filter: positions of the entries excluded
    _cancelled,            \* worker: the flag cancel() sets
    stage,                 \* worker: position in CompleteWorkflowWorker.run
    emitted,               \* worker: the signals emitted so far, in order
    streets,               \* worker: the streets loaded from the directory
    coords                 \* worker: the coordinates of the address, or None

vars == <<pj_results, entreprise_results, entreprise_by_addr,
          entreprise_by_coords, matched_ent_keys, fused, origin, pc, i,
          call, result, in_zone, out_zone_interesting, out_zone_excluded,
          _cancelled, stage, emitted, streets, coords>>

\* the state of CompleteWorkflowWorker
worker == <<_cancelled, stage, emitted, streets, coords>>

\* no worker is running
WorkerIdle ==
    /\ _cancelled = FALSE
    /\ stage = "idle"
    /\ emitted = <<>>
    /\ streets = <<>>
    /\ coords = <<>>

---------------------------------------------------------------------------
(* Bounds of the model. *)

MaxPJ == 2
MaxEnt == 2

---------------------------------------------------------------------------
(* Python values. *)

None == <<>>

Some(v) == <<v>>

\* d.get(k) on a dict d
Get(d, k) == IF k \in DOMAIN d THEN Some(d[k]) ELSE None

\* d.get(k, default) on a dict d
GetDefault(d, k, default) == IF k \in DOMAIN d THEN d[k] ELSE default

\* d[k] = v on a dict d
Put(d, k, v) == [x \in (DOMAIN d) \cup {k} |-> IF x = k THEN v ELSE d[x]]

\* truth value of an optional str / list (None, "" and [] are false)
TruthyStr(o) == o # None /\ Len(o[1]) > 0

\* truth value of an optional number (None and 0 are false)
TruthyNum(o) == o # None /\ o[1] # 0

\* truth value of an optional dict (None and {} are false)
TruthyDict(o) == o # None /\ DOMAIN o[1] # {}

\* a or b, for optional str values
PyOr(a, b) == IF TruthyStr(a) THEN a ELSE b

\* round(x, 4) of a coordinate held in units of 1e-5 degree
Round4(x) ==
    LET q == x \div 10
        r == x % 10
    IN  IF r < 5 THEN 10 * q
        ELSE IF r > 5 THEN 10 * (q + 1)
        ELSE IF q % 2 = 0 THEN 10 * q ELSE 10 * (q + 1)

---------------------------------------------------------------------------
(* Strings as sequences of characters. *)

Digits == {"0", "1", "2", "3", "4", "5", "6", "7", "8", "9"}

\* the characters str.strip(), str.split() and \s take for whitespace
Whitespace == {" ", "\t"}

UpperToLower ==
    [c \in {"A", "B", "C", "D", "E", "F", "G", "H", "I", "J", "K", "L", "M",
            "N", "O", "P", "Q", "R", "S", "T", "U", "V", "W", "X", "Y", "Z",
            "À", "É"} |->
        CASE c = "A" -> "a" [] c = "B" -> "b" [] c = "C" -> "c" [] c = "D" -> "d"
          [] c = "E" -> "e" [] c = "F" -> "f" [] c = "G" -> "g" [] c = "H" -> "h"
          [] c = "I" -> "i" [] c = "J" -> "j" [] c = "K" -> "k" [] c = "L" -> "l"
          [] c = "M" -> "m" [] c = "N" -> "n" [] c = "O" -> "o" [] c = "P" -> "p"
          [] c = "Q" -> "q" [] c = "R" -> "r" [] c = "S" -> "s" [] c = "T" -> "t"
          [] c = "U" -> "u" [] c = "V" -> "v" [] c = "W" -> "w" [] c = "X" -> "x"
          [] c = "Y" -> "y" [] c = "Z" -> "z" [] c = "À" -> "à" [] c = "É" -> "é"]

\* s.lower()
Lower(s) ==
    [k \in 1..Len(s) |-> IF s[k] \in DOMAIN UpperToLower THEN UpperToLower[s[k]] ELSE s[k]]

\* s.strip()
Strip(s) ==
    LET nonSpace == {k \in 1..Len(s) : s[k] \notin Whitespace}
    IN  IF nonSpace = {} THEN <<>>
        ELSE LET lo == CHOOSE k \in nonSpace : \A m \in nonSpace : k <= m
                 hi == CHOOSE k \in nonSpace : \A m \in nonSpace : k >= m
             IN  SubSeq(s, lo, hi)

\* s.replace(",", " ")
ReplaceComma(s) == [k \in 1..Len(s) |-> IF s[k] = "," THEN " " ELSE s[k]]

\* s.replace("  ", " "): one left-to-right pass over non-overlapping occurrences
RECURSIVE ReplaceDoubleSpace(_)
ReplaceDoubleSpace(s) ==
    IF Len(s) = 0 THEN <<>>
    ELSE IF Len(s) >= 2 /\ s[1] = " " /\ s[2] = " "
         THEN <<" ">> \o ReplaceDoubleSpace(SubSeq(s, 3, Len(s)))
         ELSE <<s[1]>> \o ReplaceDoubleSpace(Tail(s))

\* _normalize_address_key
_normalize_address_key(address_str) ==
    ReplaceDoubleSpace(ReplaceComma(Strip(Lower(address_str))))

\* _make_address_key
_make_address_key(addr) ==
    _normalize_address_key(
        GetDefault(addr, "numero", <<>>) \o <<" ">> \o
        GetDefault(addr, "voie", <<>>) \o <<" ">> \o
        GetDefault(addr, "code_postal", <<>>) \o <<" ">> \o
        GetDefault(addr, "ville", <<>>))

---------------------------------------------------------------------------
(* _parse_address_string: re.match(r'^(\d+)\s+(.+?),?\s+(\d{5})\s+(.+)$')  *)
(* on the stripped string.                                                 *)

\* number of digits at the start of s
RECURSIVE LeadingDigits(_)
LeadingDigits(s) ==
    IF Len(s) > 0 /\ s[1] \in Digits THEN 1 + LeadingDigits(Tail(s)) ELSE 0

\* number of consecutive whitespace characters of s from position p on
RECURSIVE SpacesFrom(_, _)
SpacesFrom(s, p) ==
    IF p <= Len(s) /\ s[p] \in Whitespace THEN 1 + SpacesFrom(s, p + 1) ELSE 0

\* start of (\d{5}) when group 2 ends at e and the optional comma has length c
PostalStart(s, e, c) == e + c + 1 + SpacesFrom(s, e + c + 1)

\* start of the last group (.+) for the same split
CityStart(s, e, c) == PostalStart(s, e, c) + 5 + SpacesFrom(s, PostalStart(s, e, c) + 5)

\* the ways the pattern matches all of s: the first \s+ takes k characters,
\* group 2 ends at position e, and ,? takes c characters
ParseSplits(s) ==
    LET d == LeadingDigits(s)
    IN  IF d = 0 THEN {}
        ELSE {sp \in (1..SpacesFrom(s, d + 1)) \X ((d + 2)..Len(s)) \X {0, 1} :
                LET k == sp[1]
                    e == sp[2]
                    c == sp[3]
                    p == PostalStart(s, e, c)
                IN  /\ e >= d + k + 1
                    /\ c = 1 => (e + 1 <= Len(s) /\ s[e + 1] = ",")
                    /\ SpacesFrom(s, e + c + 1) >= 1
                    /\ p + 4 <= Len(s)
                    /\ \A m \in p..(p + 4) : s[m] \in Digits
                    /\ SpacesFrom(s, p + 5) >= 1
                    /\ CityStart(s, e, c) <= Len(s)}

\* the split the backtracking matcher finds first: greedy \s+, lazy group 2,
\* greedy ,?
FirstSplit(s) ==
    LET splits == ParseSplits(s)
    IN  CHOOSE sp \in splits :
            \A other \in splits :
                \/ sp[1] > other[1]
                \/ sp[1] = other[1] /\ sp[2] < other[2]
                \/ sp[1] = other[1] /\ sp[2] = other[2] /\ sp[3] >= other[3]

\* _parse_address_string: None, or Some(dict of the four components)
_parse_address_string(address_str) ==
    IF Len(address_str) = 0 THEN None
    ELSE LET s == Strip(address_str)
         IN  IF ParseSplits(s) = {} THEN None
             ELSE LET sp == FirstSplit(s)
                      d == LeadingDigits(s)
                      p == PostalStart(s, sp[2], sp[3])
                      q == CityStart(s, sp[2], sp[3])
                  IN  Some([numero |-> SubSeq(s, 1, d),
                            voie |-> Strip(SubSeq(s, d + sp[1] + 1, sp[2])),
                            code_postal |-> SubSeq(s, p, p + 4),
                            ville |-> Strip(SubSeq(s, q, Len(s)))])

\* _make_owner_name, also the inlined copy of fuse_results lines 288-293
_make_owner_name(ent) ==
    LET first == TruthyStr(ent.owner_first_name)
        last == TruthyStr(ent.owner_last_name)
    IN  IF first /\ last
        THEN Some(ent.owner_first_name[1] \o " " \o ent.owner_last_name[1])
        ELSE IF first THEN Some(ent.owner_first_name[1])
        ELSE IF last THEN Some(ent.owner_last_name[1])
        ELSE None

---------------------------------------------------------------------------
(* AddressComparator: normalisation (src/src/address_comparator.py). *)

\* replacements of normalize_string
Replacements ==
    [c \in {"à", "á", "â", "ã", "ä", "å", "è", "é", "ê", "ë", "ì", "í", "î",
            "ï", "ò", "ó", "ô", "õ", "ö", "ù", "ú", "û", "ü", "ç", "ñ"} |->
        CASE c \in {"à", "á", "â", "ã", "ä", "å"} -> "a"
          [] c \in {"è", "é", "ê", "ë"} -> "e"
          [] c \in {"ì", "í", "î", "ï"} -> "i"
          [] c \in {"ò", "ó", "ô", "õ", "ö"} -> "o"
          [] c \in {"ù", "ú", "û", "ü"} -> "u"
          [] c = "ç" -> "c"
          [] c = "ñ" -> "n"]

\* the characters \w matches: letters, digits and the underscore
WordChars ==
    (DOMAIN UpperToLower) \cup {UpperToLower[c] : c \in DOMAIN UpperToLower}
        \cup (DOMAIN Replacements) \cup Digits \cup {"_"}

\* text.replace(accent, replacement) for every entry of replacements
RemoveAccents(text) ==
    [k \in 1..Len(text) |->
        IF text[k] \in DOMAIN Replacements THEN Replacements[text[k]] ELSE text[k]]

\* re.sub(r'[^\w\s]', ' ', text)
RemovePunctuation(text) ==
    [k \in 1..Len(text) |->
        IF text[k] \in WordChars \cup Whitespace THEN text[k] ELSE " "]

\* re.sub(r'\s+', ' ', text)
RECURSIVE CollapseSpaces(_)
CollapseSpaces(text) ==
    IF Len(text) = 0 THEN <<>>
    ELSE IF text[1] \in Whitespace
         THEN <<" ">> \o CollapseSpaces(SubSeq(text, 1 + SpacesFrom(text, 1), Len(text)))
         ELSE <<text[1]>> \o CollapseSpaces(Tail(text))

\* a variant of normalize_string that strips before it removes the punctuation
normalize_string_strip_first(text) ==
    IF Len(text) = 0 THEN <<>>
    ELSE RemovePunctuation(Strip(CollapseSpaces(RemoveAccents(Strip(Lower(text))))))

\* normalize_string
normalize_string(text) ==
    IF Len(text) = 0 THEN <<>>
    ELSE Strip(CollapseSpaces(RemovePunctuation(RemoveAccents(Strip(Lower(text))))))

---------------------------------------------------------------------------
(* AddressComparator.parse_address_string (src/src/address_comparator.py). *)

\* s.split(): the maximal runs of non-whitespace characters of s
RECURSIVE Split(_)
Split(s) ==
    IF Len(s) = 0 THEN <<>>
    ELSE IF s[1] \in Whitespace THEN Split(Tail(s))
    ELSE LET rest == Split(Tail(s))
         IN  IF Len(s) >= 2 /\ s[2] \notin Whitespace
             THEN <<(<<s[1]>> \o rest[1])>> \o Tail(rest)
             ELSE <<(<<s[1]>>)>> \o rest

\* ' '.join(words)
RECURSIVE Join(_)
Join(words) ==
    IF Len(words) = 0 THEN <<>>
    ELSE IF Len(words) = 1 THEN words[1]
    ELSE words[1] \o <<" ">> \o Join(Tail(words))

\* re.match(r'^\d{5}$', part)
IsPostalToken(part) == Len(part) = 5 /\ \A k \in 1..5 : part[k] \in Digits

\* the ways r'^(\d+)\s+(.+?)\s+(\d{5})\s+(.+)$' matches all of s
StrictSplits(s) == {sp \in ParseSplits(s) : sp[3] = 0}

\* lines 221-230: the strict pattern, None when it does not match
StrictParse(s) ==
    IF StrictSplits(s) = {} THEN None
    ELSE LET splits == StrictSplits(s)
             sp == CHOOSE x \in splits :
                       \A other \in splits :
                           \/ x[1] > other[1]
                           \/ x[1] = other[1] /\ x[2] <= other[2]
             d == LeadingDigits(s)
             p == PostalStart(s, sp[2], 0)
             q == CityStart(s, sp[2], 0)
         IN  Some([numero |-> SubSeq(s, 1, d),
                   voie |-> Strip(SubSeq(s, d + sp[1] + 1, sp[2])),
                   code_postal |-> SubSeq(s, p, p + 4),
                   ville |-> Strip(SubSeq(s, q, Len(s)))])

\* lines 233-248: the split on the first 5-digit token, None when it does
\* not apply
FallbackParse(s) ==
    LET parts == Split(s)
        postal == {k \in 1..Len(parts) : IsPostalToken(parts[k])}
    IN  IF Len(parts) < 4 \/ postal = {} THEN None
        ELSE LET idx == CHOOSE k \in postal : \A m \in postal : k <= m
             IN  IF idx = 1 THEN None
                 ELSE Some([numero |-> parts[1],
                            voie |-> Join(SubSeq(parts, 2, idx - 1)),
                            code_postal |-> parts[idx],
                            ville |-> Join(SubSeq(parts, idx + 1, Len(parts)))])

\* a variant of parse_address_string that tries the token split first
parse_address_string_fallback_first(address_str) ==
    IF address_str = None \/ Len(address_str[1]) = 0 THEN None
    ELSE LET s == Strip(address_str[1])
         IN  IF FallbackParse(s) # None THEN FallbackParse(s) ELSE StrictParse(s)

\* parse_address_string, of an optional str
parse_address_string(address_str) ==
    IF address_str = None \/ Len(address_str[1]) = 0 THEN None
    ELSE LET s == Strip(address_str[1])
         IN  IF StrictParse(s) # None THEN StrictParse(s) ELSE FallbackParse(s)

---------------------------------------------------------------------------
(* AddressComparator: street types. *)

\* self.abbreviations, in the order of the dict
abbreviations ==
    <<
       [full_form |-> <<"r", "u", "e">>,
        abbreviations |-> {<<"r">>,
                           <<"r", "u", "e">>,
                           <<"r", ".">>,
                           <<"r", "°">>}],
       [full_form |-> <<"a", "v", "e", "n", "u", "e">>,
        abbreviations |-> {<<"a", "v">>,
                           <<"a", "v", "e">>,
                           <<"a", "v", "e", "n", "u", "e">>,
                           <<"a", "v", ".">>,
                           <<"a", "v", "e", ".">>}],
       [full_form |-> <<"b", "o", "u", "l", "e", "v", "a", "r", "d">>,
        abbreviations |-> {<<"b", "d">>,
                           <<"b", "l", "v", "d">>,
                           <<"b", "o", "u", "l", "e", "v", "a", "r", "d">>,
                           <<"b", "d", ".">>,
                           <<"b", "l", "v", "d", ".">>}],
       [full_form |-> <<"p", "l", "a", "c", "e">>,
        abbreviations |-> {<<"p", "l">>,
                           <<"p", "l", "a", "c", "e">>,
                           <<"p", "l", ".">>}],
       [full_form |-> <<"i", "m", "p", "a", "s", "s", "e">>,
        abbreviations |-> {<<"i", "m", "p">>,
                           <<"i", "m", "p", "a", "s", "s", "e">>,
                           <<"i", "m", "p", ".">>}],
       [full_form |-> <<"c", "h", "e", "m", "i", "n">>,
        abbreviations |-> {<<"c", "h">>,
                           <<"c", "h", "e", "m", "i", "n">>,
                           <<"c", "h", ".">>}],
       [full_form |-> <<"r", "o", "u", "t", "e">>,
        abbreviations |-> {<<"r", "t">>,
                           <<"r", "o", "u", "t", "e">>,
                           <<"r", "t", ".">>}],
       [full_form |-> <<"a", "l", "l", "é", "e">>,
        abbreviations |-> {<<"a", "l", "l">>,
                           <<"a", "l", "l", "é", "e">>,
                           <<"a", "l", "l", "e", "e">>,
                           <<"a", "l", "l", ".">>,
                           <<"a", "l", "l", "e">>}],
       [full_form |-> <<"s", "q", "u", "a", "r", "e">>,
        abbreviations |-> {<<"s", "q">>,
                           <<"s", "q", "u", "a", "r", "e">>,
                           <<"s", "q", ".">>}],
       [full_form |-> <<"p", "a", "s", "s", "a", "g", "e">>,
        abbreviations |-> {<<"p", "a", "s", "s">>,
                           <<"p", "a", "s", "s", "a", "g", "e">>,
                           <<"p", "a", "s", "s", ".">>}],
       [full_form |-> <<"c", "o", "u", "r", "s">>,
        abbreviations |-> {<<"c", "o", "u", "r", "s">>,
                           <<"c", "r", "s">>,
                           <<"c", "r", "s", ".">>}],
       [full_form |-> <<"q", "u", "a", "i">>,
        abbreviations |-> {<<"q", "u", "a", "i">>,
                           <<"q">>,
                           <<"q", ".">>}],
       [full_form |-> <<"f", "a", "u", "b", "o", "u", "r", "g">>,
        abbreviations |-> {<<"f", "b", "g">>,
                           <<"f", "a", "u", "b", "o", "u", "r", "g">>,
                           <<"f", "b", "g", ".">>}],
       [full_form |-> <<"e", "s", "p", "l", "a", "n", "a", "d", "e">>,
        abbreviations |-> {<<"e", "s", "p">>,
                           <<"e", "s", "p", "l", "a", "n", "a", "d", "e">>,
                           <<"e", "s", "p", ".">>}],
       [full_form |-> <<"l", "o", "t", "i", "s", "s", "e", "m", "e", "n", "t">>,
        abbreviations |-> {<<"l", "o", "t">>,
                           <<"l", "o", "t", "i", "s", "s", "e", "m", "e", "n", "t">>,
                           <<"l", "o", "t", ".">>}],
       [full_form |-> <<"r", "e", "s", "i", "d", "e", "n", "c", "e">>,
        abbreviations |-> {<<"r", "e", "s">>,
                           <<"r", "e", "s", "i", "d", "e", "n", "c", "e">>,
                           <<"r", "é", "s", "i", "d", "e", "n", "c", "e">>,
                           <<"r", "e", "s", ".">>}]
    >>

\* self.stop_words
stop_words ==
    {<<"d", "e">>,
     <<"d", "u">>,
     <<"d", "e", "s">>,
     <<"l", "e">>,
     <<"l", "a">>,
     <<"l", "e", "s">>,
     <<"e", "t">>,
     <<"o", "u">>,
     <<"d">>,
     <<"l">>}

\* the entries of abbreviations that list word
FormsOf(word) == {k \in 1..Len(abbreviations) : word \in abbreviations[k].abbreviations}

\* lines 82-92: the full form of the first entry that lists word, else word
NormalizeWord(word) ==
    IF FormsOf(word) = {} THEN word
    ELSE abbreviations[CHOOSE k \in FormsOf(word) : \A m \in FormsOf(word) : k <= m].full_form

\* a variant of normalize_street_type that leaves the street type as written
normalize_street_type_keep(street) ==
    Join(Split(normalize_string(street)))

\* normalize_street_type
normalize_street_type(street) ==
    LET words == Split(normalize_string(street))
    IN  Join([k \in 1..Len(words) |-> NormalizeWord(words[k])])

---------------------------------------------------------------------------
(* AddressComparator: similarity scores.  A score is the exact fraction    *)
(* <<numerator, denominator>> of the value the code computes in floating   *)
(* point.                                                                  *)

RECURSIVE GCD(_, _)
GCD(m, n) == IF n = 0 THEN m ELSE GCD(n, m % n)

\* the fraction n/d in lowest terms
Frac(n, d) == <<n \div GCD(n, d), d \div GCD(n, d)>>

Zero == Frac(0, 1)

One == Frac(1, 1)

FracLeq(x, y) == x[1] * y[2] <= y[1] * x[2]

FracAdd(x, y) == Frac(x[1] * y[2] + y[1] * x[2], x[2] * y[2])

FracMul(x, y) == Frac(x[1] * y[1], x[2] * y[2])

FracMax(x, y) == IF FracLeq(x, y) THEN y ELSE x

\* length of the common run of a from x and b from y, inside a[..ahi], b[..bhi]
RECURSIVE MatchLen(_, _, _, _, _, _)
MatchLen(a, x, ahi, b, y, bhi) ==
    IF x <= ahi /\ y <= bhi /\ a[x] = b[y]
    THEN 1 + MatchLen(a, x + 1, ahi, b, y + 1, bhi)
    ELSE 0

\* SequenceMatcher.find_longest_match without junk: the longest block, of
\* those the one that starts earliest in a, of those the earliest in b
find_longest_match(a, alo, ahi, b, blo, bhi) ==
    LET sizes == {MatchLen(a, x, ahi, b, y, bhi) : x \in alo..ahi, y \in blo..bhi}
        k == IF sizes = {} THEN 0 ELSE CHOOSE n \in sizes : \A m \in sizes : n >= m
    IN  IF k = 0 THEN <<alo, blo, 0>>
        ELSE LET starts == {x \in alo..ahi :
                               \E y \in blo..bhi : MatchLen(a, x, ahi, b, y, bhi) = k}
                 x0 == CHOOSE x \in starts : \A m \in starts : x <= m
                 ys == {y \in blo..bhi : MatchLen(a, x0, ahi, b, y, bhi) = k}
                 y0 == CHOOSE y \in ys : \A m \in ys : y <= m
             IN  <<x0, y0, k>>

\* SequenceMatcher.get_matching_blocks: the total size of the blocks found
\* by splitting around the longest match, left and right
RECURSIVE Matches(_, _, _, _, _, _)
Matches(a, alo, ahi, b, blo, bhi) ==
    IF alo > ahi \/ blo > bhi THEN 0
    ELSE LET m == find_longest_match(a, alo, ahi, b, blo, bhi)
         IN  IF m[3] = 0 THEN 0
             ELSE m[3] + Matches(a, alo, m[1] - 1, b, blo, m[2] - 1)
                       + Matches(a, m[1] + m[3], ahi, b, m[2] + m[3], bhi)

\* SequenceMatcher(None, a, b).ratio(): 2.0 * matches / (len(a) + len(b))
ratio(a, b) ==
    IF Len(a) + Len(b) = 0 THEN One
    ELSE Frac(2 * Matches(a, 1, Len(a), b, 1, Len(b)), Len(a) + Len(b))

\* calculate_similarity
calculate_similarity(str1, str2) ==
    IF Len(str1) = 0 /\ Len(str2) = 0 THEN One
    ELSE IF Len(str1) = 0 \/ Len(str2) = 0 THEN Zero
    ELSE ratio(str1, str2)

\* extract_numbers: re.findall(r'\d+', text), the maximal runs of digits
RECURSIVE extract_numbers(_)
extract_numbers(text) ==
    IF Len(text) = 0 THEN <<>>
    ELSE IF text[1] \in Digits
         THEN LET d == LeadingDigits(text)
              IN  <<SubSeq(text, 1, d)>> \o extract_numbers(SubSeq(text, d + 1, Len(text)))
         ELSE extract_numbers(Tail(text))

\* a variant of compare_numbers that lets an empty number match any number
compare_numbers_lenient(num1, num2) ==
    IF Len(num1) = 0 \/ Len(num2) = 0 THEN One
    ELSE LET numbers1 == extract_numbers(num1)
             numbers2 == extract_numbers(num2)
         IN  IF Len(numbers1) = 0 /\ Len(numbers2) = 0 THEN One
             ELSE IF Len(numbers1) = 0 \/ Len(numbers2) = 0 THEN Zero
             ELSE IF numbers1[1] = numbers2[1] THEN One
             ELSE Zero

\* compare_numbers
compare_numbers(num1, num2) ==
    IF Len(num1) = 0 /\ Len(num2) = 0 THEN One
    ELSE IF Len(num1) = 0 \/ Len(num2) = 0 THEN Zero
    ELSE LET numbers1 == extract_numbers(num1)
             numbers2 == extract_numbers(num2)
         IN  IF Len(numbers1) = 0 /\ Len(numbers2) = 0 THEN One
             ELSE IF Len(numbers1) = 0 \/ Len(numbers2) = 0 THEN Zero
             ELSE IF numbers1[1] = numbers2[1] THEN One
             ELSE Zero

\* set(norm_street.split()) - self.stop_words
StreetWords(norm_street) ==
    {Split(norm_street)[k] : k \in 1..Len(Split(norm_street))} \ stop_words

\* max([calculate_similarity(word1, word2) for word2 in words2], default=0)
BestMatch(word1, words2) ==
    LET sims == {calculate_similarity(word1, word2) : word2 \in words2}
    IN  CHOOSE x \in sims : \A y \in sims : FracLeq(y, x)

\* sum(word_similarities), over the words of words1 in any order
RECURSIVE SumBestMatch(_, _)
SumBestMatch(words1, words2) ==
    IF words1 = {} THEN Zero
    ELSE LET word1 == CHOOSE w \in words1 : TRUE
         IN  FracAdd(BestMatch(word1, words2), SumBestMatch(words1 \ {word1}, words2))

\* lines 162-168: the mean over words1 of the best similarity in words2
WordSimilarity(words1, words2) ==
    FracMul(SumBestMatch(words1, words2), Frac(1, Cardinality(words1)))

\* compare_streets
compare_streets(street1, street2) ==
    IF Len(street1) = 0 /\ Len(street2) = 0 THEN One
    ELSE IF Len(street1) = 0 \/ Len(street2) = 0 THEN Zero
    ELSE LET norm_street1 == normalize_street_type(street1)
             norm_street2 == normalize_street_type(street2)
             words1 == StreetWords(norm_street1)
             words2 == StreetWords(norm_street2)
         IN  IF words1 = {} /\ words2 = {} THEN One
             ELSE IF words1 = {} \/ words2 = {} THEN Zero
             ELSE FracMax(calculate_similarity(norm_street1, norm_street2),
                          WordSimilarity(words1, words2))

\* re.sub(r'\D', '', code)
RECURSIVE DigitsOnly(_)
DigitsOnly(code) ==
    IF Len(code) = 0 THEN <<>>
    ELSE IF code[1] \in Digits THEN <<code[1]>> \o DigitsOnly(Tail(code))
    ELSE DigitsOnly(Tail(code))

\* compare_postal_codes
compare_postal_codes(code1, code2) ==
    IF Len(code1) = 0 /\ Len(code2) = 0 THEN One
    ELSE IF Len(code1) = 0 \/ Len(code2) = 0 THEN Zero
    ELSE IF DigitsOnly(code1) = DigitsOnly(code2) THEN One
    ELSE Zero

\* compare_cities
compare_cities(city1, city2) ==
    IF Len(city1) = 0 /\ Len(city2) = 0 THEN One
    ELSE IF Len(city1) = 0 \/ Len(city2) = 0 THEN Zero
    ELSE IF normalize_string(city1) = normalize_string(city2) THEN One
    ELSE Zero

---------------------------------------------------------------------------
(* AddressComparator.compare_addresses and is_address_match. *)

\* self.similarity_thresholds
similarity_thresholds ==
    [numero |-> Frac(1, 1), voie |-> Frac(3, 4),
     code_postal |-> Frac(1, 1), ville |-> Frac(1, 1)]

\* a variant of weights that moves weight from the street to the city
weights_city ==
    [numero |-> Frac(1, 5), voie |-> Frac(1, 5),
     code_postal |-> Frac(1, 5), ville |-> Frac(2, 5)]

\* weights of compare_addresses
weights ==
    [numero |-> Frac(1, 5), voie |-> Frac(2, 5),
     code_postal |-> Frac(1, 5), ville |-> Frac(1, 5)]

Fields == <<"numero", "voie", "code_postal", "ville">>

\* strict_fields of compare_addresses
strict_fields == <<"numero", "code_postal", "ville">>

\* lines 288-305: the score of each component
Similarities(address1, parsed_address2) ==
    [numero |-> compare_numbers(GetDefault(address1, "numero", <<>>),
                                parsed_address2.numero),
     voie |-> compare_streets(GetDefault(address1, "voie", <<>>),
                              parsed_address2.voie),
     code_postal |-> compare_postal_codes(GetDefault(address1, "code_postal", <<>>),
                                          parsed_address2.code_postal),
     ville |-> compare_cities(GetDefault(address1, "ville", <<>>),
                              parsed_address2.ville)]

\* sum(similarities[key] * weights[key] for key in similarities)
OverallSimilarity(similarities) ==
    FracAdd(FracAdd(FracAdd(FracMul(similarities.numero, weights.numero),
                            FracMul(similarities.voie, weights.voie)),
                    FracMul(similarities.code_postal, weights.code_postal)),
            FracMul(similarities.ville, weights.ville))

\* all(similarities[field] == 1.0 for field in strict_fields)
StrictMatch(similarities) ==
    \A k \in 1..Len(strict_fields) : similarities[strict_fields[k]] = One

\* a variant of IsMatch that is content with the strict fields
IsMatchStrictOnly(similarities) ==
    StrictMatch(similarities)

\* lines 317-328: every threshold is reached, and the strict fields are 1.0
IsMatch(similarities) ==
    IF ~StrictMatch(similarities) THEN FALSE
    ELSE \A k \in 1..Len(Fields) :
             FracLeq(similarity_thresholds[Fields[k]], similarities[Fields[k]])

\* a variant of Unparseable that keeps a neutral overall similarity
UnparseableNeutral ==
    [is_match |-> FALSE,
     overall_similarity |-> Frac(1, 2),
     details |-> [numero |-> Zero, voie |-> Zero, code_postal |-> Zero, ville |-> Zero],
     reason |-> "Impossible de parser l'adresse",
     parsed_address2 |-> None]

\* lines 270-284: the result for a text that cannot be parsed
Unparseable ==
    [is_match |-> FALSE,
     overall_similarity |-> Zero,
     details |-> [numero |-> Zero, voie |-> Zero, code_postal |-> Zero, ville |-> Zero],
     reason |-> "Impossible de parser l'adresse",
     parsed_address2 |-> None]

\* compare_addresses, called without logger
compare_addresses(address1, address2) ==
    LET parsed_address2 == parse_address_string(address2)
    IN  IF parsed_address2 = None THEN Unparseable
        ELSE LET similarities == Similarities(address1, parsed_address2[1])
             IN  [is_match |-> IsMatch(similarities),
                  overall_similarity |-> OverallSimilarity(similarities),
                  details |-> similarities,
                  parsed_address2 |-> parsed_address2,
                  strict_fields_match |-> StrictMatch(similarities),
                  reason |-> "Comparaison réussie"]

\* a variant of is_address_match that applies threshold to the overall similarity
is_address_match_threshold(address1, address2, threshold) ==
    LET comparison == compare_addresses(address1, address2)
    IN  comparison.is_match /\ FracLeq(threshold, comparison.overall_similarity)

\* is_address_match, called without logger
is_address_match(address1, address2, threshold) ==
    LET comparison == compare_addresses(address1, address2)
    IN  comparison.is_match

---------------------------------------------------------------------------
(* The body of fuse_results. *)

\* key of the coordinate bucket of (lat, lon), as stored in matched_ent_keys
CoordKey(lat, lon) == <<"coords", <<Round4(lat), Round4(lon)>>>>

\* an address key, as stored in matched_ent_keys
AddrKey(key) == <<"addr", key>>

\* lines 203-205: the address index after indexing registry record number n
IndexByAddr(by_addr, ent, n) ==
    IF TruthyStr(ent.address)
    THEN Put(by_addr, _normalize_address_key(ent.address[1]), n)
    ELSE by_addr

\* a variant of IndexByCoords that indexes every coordinate that is not None
IndexByCoordsNotNone(by_coords, ent, n) ==
    IF ent.latitude # None /\ ent.longitude # None
    THEN Put(by_coords, <<Round4(ent.latitude[1]), Round4(ent.longitude[1])>>, n)
    ELSE by_coords

\* lines 208-210: the coordinate index after indexing registry record number n
IndexByCoords(by_coords, ent, n) ==
    IF TruthyNum(ent.latitude) /\ TruthyNum(ent.longitude)
    THEN Put(by_coords, <<Round4(ent.latitude[1]), Round4(ent.longitude[1])>>, n)
    ELSE by_coords

\* a variant of HasAddress that only skips a missing address
HasAddressNotNone(pj) == pj.address # None

\* lines 217-218: addr = pj.get("address") is truthy
HasAddress(pj) == TruthyDict(pj.address)

\* pj.get(section, {}).get(field) if pj.get(section) else None
SectionGet(pj, section, field) ==
    IF TruthyDict(pj[section]) THEN Get(pj[section][1], field) ELSE None

\* lines 222-252: the fused entry built from a directory record alone
BaseEntry(pj) ==
    LET addr == pj.address[1]
    IN  [numero |-> GetDefault(addr, "numero", <<>>),
         voie |-> GetDefault(addr, "voie", <<>>),
         code_postal |-> GetDefault(addr, "code_postal", <<>>),
         ville |-> GetDefault(addr, "ville", <<>>),
         latitude |-> SectionGet(pj, "coords", "latitude"),
         longitude |-> SectionGet(pj, "coords", "longitude"),
         pj_title |-> SectionGet(pj, "contact", "title"),
         pj_phone |-> SectionGet(pj, "contact", "phone"),
         annee_construction |-> SectionGet(pj, "bdnb", "annee_construction"),
         classe_bilan_dpe |-> SectionGet(pj, "bdnb", "classe_bilan_dpe"),
         entreprise_nom |-> None,
         entreprise_category |-> None,
         entreprise_phones |-> None,
         entreprise_emails |-> None,
         entreprise_websites |-> None,
         entreprise_siren |-> None,
         entreprise_siret |-> None,
         entreprise_naf |-> None,
         owner_name |-> None,
         owner_role |-> None,
         roof_area_m2 |-> None,
         parking_area_m2 |-> None,
         building_year |-> None]

\* lines 259-261: the coordinate bucket of a directory record, None without
\* (truthy) coordinates
PjCoordKey(pj) ==
    LET pj_coords == IF TruthyDict(pj.coords) THEN pj.coords[1] ELSE <<>>
    IN  IF TruthyNum(Get(pj_coords, "latitude")) /\ TruthyNum(Get(pj_coords, "longitude"))
        THEN Some(<<Round4(pj_coords["latitude"]), Round4(pj_coords["longitude"])>>)
        ELSE None

\* lines 260-264: the registry record found by coordinates, or None
CoordLookup(pj, by_coords) ==
    IF PjCoordKey(pj) # None /\ PjCoordKey(pj)[1] \in DOMAIN by_coords
    THEN Some(by_coords[PjCoordKey(pj)[1]])
    ELSE None

\* lines 268-271: the registry record found by address key, or None
AddrLookup(pj, by_addr) ==
    IF _make_address_key(pj.address[1]) \in DOMAIN by_addr
    THEN Some(by_addr[_make_address_key(pj.address[1])])
    ELSE None

\* a variant of FindMatch that looks the address key up first
FindMatchAddrFirst(pj, by_coords, by_addr) ==
    IF AddrLookup(pj, by_addr) # None
    THEN [ent |-> AddrLookup(pj, by_addr),
          ent_key |-> Some(AddrKey(_make_address_key(pj.address[1])))]
    ELSE IF CoordLookup(pj, by_coords) # None
    THEN [ent |-> CoordLookup(pj, by_coords),
          ent_key |-> Some(<<"coords", PjCoordKey(pj)[1]>>)]
    ELSE [ent |-> None, ent_key |-> None]

\* lines 254-271: ent and ent_key after both lookups
FindMatch(pj, by_coords, by_addr) ==
    IF CoordLookup(pj, by_coords) # None
    THEN [ent |-> CoordLookup(pj, by_coords),
          ent_key |-> Some(<<"coords", PjCoordKey(pj)[1]>>)]
    ELSE IF AddrLookup(pj, by_addr) # None
    THEN [ent |-> AddrLookup(pj, by_addr),
          ent_key |-> Some(AddrKey(_make_address_key(pj.address[1])))]
    ELSE [ent |-> None, ent_key |-> None]

\* company_info.get(field) with company_info = ent.get("company_info") or {}
CompanyGet(ent, field) ==
    IF TruthyDict(ent.company_info) THEN Get(ent.company_info[1], field) ELSE None

\* a variant of MergeEntry that takes the registry coordinates whenever the
\* registry record has some
MergeEntryOverwrite(fused_entry, ent) ==
    [fused_entry EXCEPT
        !.entreprise_nom = ent.name,
        !.entreprise_category = ent.category,
        !.entreprise_phones = ent.phones,
        !.entreprise_emails = ent.emails,
        !.entreprise_websites = ent.websites,
        !.entreprise_siren = CompanyGet(ent, "siren"),
        !.entreprise_siret = CompanyGet(ent, "siret"),
        !.entreprise_naf = PyOr(CompanyGet(ent, "naf_libelle"), CompanyGet(ent, "naf")),
        !.owner_name = _make_owner_name(ent),
        !.owner_role = ent.owner_role,
        !.roof_area_m2 = ent.roof_area_m2,
        !.parking_area_m2 = ent.parking_area_m2,
        !.building_year = ent.building_year,
        !.latitude = IF TruthyNum(ent.latitude)
                     THEN ent.latitude ELSE fused_entry.latitude,
        !.longitude = IF TruthyNum(ent.longitude)
                      THEN ent.longitude ELSE fused_entry.longitude]

\* lines 277-304: the fused entry after copying the matched registry record
MergeEntry(fused_entry, ent) ==
    [fused_entry EXCEPT
        !.entreprise_nom = ent.name,
        !.entreprise_category = ent.category,
        !.entreprise_phones = ent.phones,
        !.entreprise_emails = ent.emails,
        !.entreprise_websites = ent.websites,
        !.entreprise_siren = CompanyGet(ent, "siren"),
        !.entreprise_siret = CompanyGet(ent, "siret"),
        !.entreprise_naf = PyOr(CompanyGet(ent, "naf_libelle"), CompanyGet(ent, "naf")),
        !.owner_name = _make_owner_name(ent),
        !.owner_role = ent.owner_role,
        !.roof_area_m2 = ent.roof_area_m2,
        !.parking_area_m2 = ent.parking_area_m2,
        !.building_year = ent.building_year,
        !.latitude = IF fused_entry.latitude = None /\ TruthyNum(ent.latitude)
                     THEN ent.latitude ELSE fused_entry.latitude,
        !.longitude = IF fused_entry.longitude = None /\ TruthyNum(ent.longitude)
                      THEN ent.longitude ELSE fused_entry.longitude]

\* a variant of AlreadyMatched that only checks the address key
AlreadyMatchedAddrOnly(ent, matched) ==
    AddrKey(_normalize_address_key(ent.address[1])) \in matched

\* lines 313-322: the standalone loop skips this registry record
AlreadyMatched(ent, matched) ==
    \/ /\ TruthyNum(ent.latitude) /\ TruthyNum(ent.longitude)
       /\ CoordKey(ent.latitude[1], ent.longitude[1]) \in matched
    \/ AddrKey(_normalize_address_key(ent.address[1])) \in matched

\* lines 325-359: the fused entry built from a registry record alone
StandaloneEntry(ent) ==
    LET parsed == _parse_address_string(ent.address[1])
    IN  [numero |-> IF parsed # None THEN parsed[1].numero ELSE <<>>,
         voie |-> IF parsed # None THEN parsed[1].voie ELSE <<>>,
         code_postal |-> IF parsed # None THEN parsed[1].code_postal ELSE <<>>,
         ville |-> IF parsed # None THEN parsed[1].ville ELSE <<>>,
         latitude |-> ent.latitude,
         longitude |-> ent.longitude,
         pj_title |-> None,
         pj_phone |-> None,
         annee_construction |-> None,
         classe_bilan_dpe |-> None,
         entreprise_nom |-> ent.name,
         entreprise_category |-> ent.category,
         entreprise_phones |-> ent.phones,
         entreprise_emails |-> ent.emails,
         entreprise_websites |-> ent.websites,
         entreprise_siren |-> CompanyGet(ent, "siren"),
         entreprise_siret |-> CompanyGet(ent, "siret"),
         entreprise_naf |-> CompanyGet(ent, "naf_libelle"),
         owner_name |-> _make_owner_name(ent),
         owner_role |-> ent.owner_role,
         roof_area_m2 |-> ent.roof_area_m2,
         parking_area_m2 |-> ent.parking_area_m2,
         building_year |-> ent.building_year]

---------------------------------------------------------------------------
(* Input records the lists are drawn from. *)

Str58 == <<"5", "8">>

StrRueAlger == <<"r", "u", "e", " ", "A", "l", "g", "e", "r">>

Str81600 == <<"8", "1", "6", "0", "0">>

StrGaillac == <<"G", "a", "i", "l", "l", "a", "c">>

Str12 == <<"1", "2">>

StrAvenueFoch == <<"a", "v", "e", "n", "u", "e", " ", "F", "o", "c", "h">>

\* "58 rue d'Alger, 81600 Gaillac"
AdrScenario ==
    <<"5", "8", " ", "r", "u", "e", " ", "d", "'", "A", "l", "g", "e", "r", ",", " ", "8", "1", "6", "0", "0", " ", "G", "a", "i", "l", "l", "a", "c">>

\* "58 rue Alger, 81600 Gaillac"
AdrPlain ==
    <<"5", "8", " ", "r", "u", "e", " ", "A", "l", "g", "e", "r", ",", " ", "8", "1", "6", "0", "0", " ", "G", "a", "i", "l", "l", "a", "c">>

\* "58 Rue Alger 81600 Gaillac"
AdrUpper ==
    <<"5", "8", " ", "R", "u", "e", " ", "A", "l", "g", "e", "r", " ", "8", "1", "6", "0", "0", " ", "G", "a", "i", "l", "l", "a", "c">>

\* "Gaillac"
AdrTown == <<"G", "a", "i", "l", "l", "a", "c">>

\* an EntrepriseData with every field absent
EntBlank ==
    [name |-> None, category |-> None, address |-> None,
     latitude |-> None, longitude |-> None,
     phones |-> None, emails |-> None, websites |-> None,
     company_info |-> None,
     owner_first_name |-> None, owner_last_name |-> None, owner_role |-> None,
     building_year |-> None, roof_area_m2 |-> None, parking_area_m2 |-> None]

EntScenario ==
    [EntBlank EXCEPT
        !.name = Some("Boulangerie X"),
        !.address = Some(AdrScenario),
        !.latitude = Some(4389850),
        !.longitude = Some(190650),
        !.company_info = Some([siren |-> "123456789"])]

EntPlain ==
    [EntBlank EXCEPT
        !.name = Some("Fournil Alger"),
        !.category = Some("bakery"),
        !.address = Some(AdrPlain),
        !.phones = Some(<<"0563444444", "0600000000">>),
        !.emails = Some(<<"contact@fournil.fr">>),
        !.websites = Some(<<"fournil.fr">>),
        !.company_info = Some([siren |-> "987654321", siret |-> "98765432100012",
                               naf |-> "1071C", naf_libelle |-> "Boulangerie"]),
        !.owner_first_name = Some("Jean"),
        !.owner_last_name = Some("Dupont"),
        !.owner_role = Some("Gerant"),
        !.building_year = Some(1950),
        !.roof_area_m2 = Some([num |-> 120]),
        !.parking_area_m2 = Some([num |-> 250])]

EntUpper ==
    [EntBlank EXCEPT
        !.name = Some("Alger SARL"),
        !.address = Some(AdrUpper),
        !.latitude = Some(4389853),
        !.longitude = Some(190651),
        !.phones = Some(<<>>),
        !.company_info = Some([naf |-> "1071C"]),
        !.owner_last_name = Some("Martin")]

EntTown ==
    [EntBlank EXCEPT
        !.name = Some("Mairie"),
        !.address = Some(AdrTown)]

EntEmptyAddr ==
    [EntBlank EXCEPT
        !.name = Some("Sans Adresse"),
        !.address = Some(<<>>),
        !.phones = Some(<<"0563222222">>)]

EntUniverse == {EntScenario, EntPlain, EntUpper, EntTown, EntEmptyAddr}

AddrAlger ==
    [numero |-> Str58, voie |-> StrRueAlger, code_postal |-> Str81600, ville |-> StrGaillac]

AddrFoch ==
    [numero |-> Str12, voie |-> StrAvenueFoch, code_postal |-> Str81600, ville |-> StrGaillac]

PjScenario ==
    [address |-> Some(AddrAlger),
     coords |-> None,
     contact |-> Some([phone |-> "0563000000"]),
     bdnb |-> None]

PjCoords ==
    [address |-> Some(AddrAlger),
     coords |-> Some([latitude |-> 4389850, longitude |-> 190650]),
     contact |-> Some([phone |-> "0563111111", title |-> "Boulangerie Alger",
                       address |-> "58 RUE ALGER GAILLAC"]),
     bdnb |-> Some([annee_construction |-> 1975, classe_bilan_dpe |-> "D"])]

\* no contact, no building info, and an empty coords dict
PjBare ==
    [address |-> Some(AddrFoch), coords |-> Some(<<>>), contact |-> None, bdnb |-> None]

PjNoAddr ==
    [address |-> None,
     coords |-> Some([latitude |-> 4389850, longitude |-> 190650]),
     contact |-> Some([phone |-> "0563333333", title |-> "Sans adresse"]),
     bdnb |-> None]

PjEmptyAddr ==
    [address |-> Some(<<>>),
     coords |-> Some([latitude |-> 4389850, longitude |-> 190650]),
     contact |-> Some(<<>>),
     bdnb |-> Some([classe_bilan_dpe |-> "B"])]

PjUniverse == {PjScenario, PjCoords, PjBare, PjNoAddr, PjEmptyAddr}

\* the lists of at most n elements of S
SeqsUpTo(S, n) == UNION {[1..m -> S] : m \in 0..n}

---------------------------------------------------------------------------
(* fuse_results as a state machine: one step per loop iteration. *)

Init ==
    /\ WorkerIdle
    /\ pj_results \in SeqsUpTo(PjUniverse, MaxPJ)
    /\ entreprise_results \in SeqsUpTo(EntUniverse, MaxEnt)
    /\ entreprise_by_addr = <<>>
    /\ entreprise_by_coords = <<>>
    /\ matched_ent_keys = {}
    /\ fused = <<>>
    /\ origin = <<>>
    /\ pc = "index"
    /\ i = 1
    /\ call = [fn |-> "fuse_results", args |-> <<>>]
    /\ result = None
    /\ in_zone = <<>>
    /\ out_zone_interesting = <<>>
    /\ out_zone_excluded = <<>>

\* lines 201-210: one iteration of the indexing loop
IndexStep ==
    /\ UNCHANGED worker
    /\ UNCHANGED <<call, result, in_zone, out_zone_interesting, out_zone_excluded>>
    /\ pc = "index"
    /\ i <= Len(entreprise_results)
    /\ entreprise_by_addr' = IndexByAddr(entreprise_by_addr, entreprise_results[i], i)
    /\ entreprise_by_coords' = IndexByCoords(entreprise_by_coords, entreprise_results[i], i)
    /\ i' = i + 1
    /\ UNCHANGED <<pj_results, entreprise_results, matched_ent_keys, fused, origin, pc>>

\* lines 213-216: the indexing loop is over, the directory loop starts
IndexDone ==
    /\ UNCHANGED worker
    /\ UNCHANGED <<call, result, in_zone, out_zone_interesting, out_zone_excluded>>
    /\ pc = "index"
    /\ i > Len(entreprise_results)
    /\ matched_ent_keys' = {}
    /\ pc' = "pj"
    /\ i' = 1
    /\ UNCHANGED <<pj_results, entreprise_results, entreprise_by_addr,
                   entreprise_by_coords, fused, origin>>

\* lines 217-219: a directory record without address is skipped
PjSkip ==
    /\ UNCHANGED worker
    /\ UNCHANGED <<call, result, in_zone, out_zone_interesting, out_zone_excluded>>
    /\ pc = "pj"
    /\ i <= Len(pj_results)
    /\ ~HasAddress(pj_results[i])
    /\ i' = i + 1
    /\ UNCHANGED <<pj_results, entreprise_results, entreprise_by_addr,
                   entreprise_by_coords, matched_ent_keys, fused, origin, pc>>

\* a variant of PjStep that appends the entry once before and once after the
\* registry data are copied
PjStepAppendTwice ==
    /\ UNCHANGED worker
    /\ UNCHANGED <<call, result, in_zone, out_zone_interesting, out_zone_excluded>>
    /\ pc = "pj"
    /\ i <= Len(pj_results)
    /\ HasAddress(pj_results[i])
    /\ LET pj == pj_results[i]
           m == FindMatch(pj, entreprise_by_coords, entreprise_by_addr)
       IN  IF m.ent # None
           THEN /\ matched_ent_keys' = matched_ent_keys \cup {m.ent_key[1]}
                /\ fused' = fused \o <<BaseEntry(pj),
                                       MergeEntry(BaseEntry(pj),
                                                  entreprise_results[m.ent[1]])>>
                /\ origin' = origin \o <<[pj |-> i, ent |-> 0],
                                         [pj |-> i, ent |-> m.ent[1]]>>
           ELSE /\ matched_ent_keys' = matched_ent_keys
                /\ fused' = Append(fused, BaseEntry(pj))
                /\ origin' = Append(origin, [pj |-> i, ent |-> 0])
    /\ i' = i + 1
    /\ UNCHANGED <<pj_results, entreprise_results, entreprise_by_addr,
                   entreprise_by_coords, pc>>

\* lines 221-306: one iteration of the directory loop
PjStep ==
    /\ UNCHANGED worker
    /\ UNCHANGED <<call, result, in_zone, out_zone_interesting, out_zone_excluded>>
    /\ pc = "pj"
    /\ i <= Len(pj_results)
    /\ HasAddress(pj_results[i])
    /\ LET pj == pj_results[i]
           m == FindMatch(pj, entreprise_by_coords, entreprise_by_addr)
       IN  IF m.ent # None
           THEN /\ matched_ent_keys' = matched_ent_keys \cup {m.ent_key[1]}
                /\ fused' = Append(fused, MergeEntry(BaseEntry(pj),
                                                     entreprise_results[m.ent[1]]))
                /\ origin' = Append(origin, [pj |-> i, ent |-> m.ent[1]])
           ELSE /\ matched_ent_keys' = matched_ent_keys
                /\ fused' = Append(fused, BaseEntry(pj))
                /\ origin' = Append(origin, [pj |-> i, ent |-> 0])
    /\ i' = i + 1
    /\ UNCHANGED <<pj_results, entreprise_results, entreprise_by_addr,
                   entreprise_by_coords, pc>>

\* line 309: the directory loop is over, the standalone loop starts
PjDone ==
    /\ UNCHANGED worker
    /\ UNCHANGED <<call, result, in_zone, out_zone_interesting, out_zone_excluded>>
    /\ pc = "pj"
    /\ i > Len(pj_results)
    /\ pc' = "ent"
    /\ i' = 1
    /\ UNCHANGED <<pj_results, entreprise_results, entreprise_by_addr,
                   entreprise_by_coords, matched_ent_keys, fused, origin>>

\* lines 310-322: a registry record without address, or with a consumed key,
\* is skipped
EntSkip ==
    /\ UNCHANGED worker
    /\ UNCHANGED <<call, result, in_zone, out_zone_interesting, out_zone_excluded>>
    /\ pc = "ent"
    /\ i <= Len(entreprise_results)
    /\ \/ ~TruthyStr(entreprise_results[i].address)
       \/ /\ TruthyStr(entreprise_results[i].address)
          /\ AlreadyMatched(entreprise_results[i], matched_ent_keys)
    /\ i' = i + 1
    /\ UNCHANGED <<pj_results, entreprise_results, entreprise_by_addr,
                   entreprise_by_coords, matched_ent_keys, fused, origin, pc>>

\* lines 324-361: one iteration of the standalone loop
EntStep ==
    /\ UNCHANGED worker
    /\ UNCHANGED <<call, result, in_zone, out_zone_interesting, out_zone_excluded>>
    /\ pc = "ent"
    /\ i <= Len(entreprise_results)
    /\ TruthyStr(entreprise_results[i].address)
    /\ ~AlreadyMatched(entreprise_results[i], matched_ent_keys)
    /\ fused' = Append(fused, StandaloneEntry(entreprise_results[i]))
    /\ origin' = Append(origin, [pj |-> 0, ent |-> i])
    /\ i' = i + 1
    /\ UNCHANGED <<pj_results, entreprise_results, entreprise_by_addr,
                   entreprise_by_coords, matched_ent_keys, pc>>

\* lines 363-364: fuse_results returns fused
Return ==
    /\ UNCHANGED worker
    /\ UNCHANGED <<call, result, in_zone, out_zone_interesting, out_zone_excluded>>
    /\ pc = "ent"
    /\ i > Len(entreprise_results)
    /\ pc' = "done"
    /\ UNCHANGED <<pj_results, entreprise_results, entreprise_by_addr,
                   entreprise_by_coords, matched_ent_keys, fused, origin, i>>

Next ==
    \/ IndexStep
    \/ IndexDone
    \/ PjSkip
    \/ PjStep
    \/ PjDone
    \/ EntSkip
    \/ EntStep
    \/ Return

Spec == Init /\ [][Next]_vars

TypeOK ==
    /\ pc \in {"index", "pj", "ent", "done", "call", "filter", "return", "saved", "run"}
    /\ pc \in {"index", "pj", "ent", "done"} => Len(fused) = Len(origin)
    /\ i \in 1..(MaxPJ + MaxEnt + 1)

---------------------------------------------------------------------------
(* Properties of fuse_results. *)

\* positions of the output
Out == 1..Len(fused)

\* the output entries built from directory record number p
FromPj(p) == {a \in Out : origin[a].pj = p}

\* the output entries registry record number e contributed to
FromEnt(e) == {a \in Out : origin[a].ent = e}

Merged(a) == origin[a].pj # 0 /\ origin[a].ent # 0

Standalone(a) == origin[a].pj = 0 /\ origin[a].ent # 0

\* C1: no registry record is merged into more than one fused record, and a
\* merged registry record is not emitted again as a standalone record: no
\* two entries of the output come from the same registry record.
C1_NoRegistryReuse ==
    \A a, b \in Out :
        (a # b /\ origin[a].ent # 0) => origin[a].ent # origin[b].ent

\* C2: when fuse_results returns, every registry record has contributed to
\* exactly one entry of the output.
C2_EveryRegistryRecordOnce ==
    pc = "done" =>
        \A e \in 1..Len(entreprise_results) : Cardinality(FromEnt(e)) = 1

\* C3: fusing the scenario's directory record with the scenario's registry
\* record returns exactly one entry, carrying the phone and the SIREN.
C3_ScenarioMerged ==
    (pc = "done" /\ pj_results = <<PjScenario>> /\ entreprise_results = <<EntScenario>>)
        => /\ Len(fused) = 1
           /\ fused[1].pj_phone = Some("0563000000")
           /\ fused[1].entreprise_siren = Some("123456789")

\* the str fields of a fused entry
StrFields(entry) ==
    {entry.pj_title, entry.pj_phone, entry.classe_bilan_dpe, entry.entreprise_nom,
     entry.entreprise_category, entry.entreprise_siren, entry.entreprise_siret,
     entry.entreprise_naf, entry.owner_name, entry.owner_role}

\* a non-empty str of a source record appears in the fused entry
KeptStr(entry, o) == TruthyStr(o) => o \in StrFields(entry)

\* every non-empty field of the directory record is in the entry
DirectoryKept(entry, pj) ==
    /\ entry.numero = GetDefault(pj.address[1], "numero", <<>>)
    /\ entry.voie = GetDefault(pj.address[1], "voie", <<>>)
    /\ entry.code_postal = GetDefault(pj.address[1], "code_postal", <<>>)
    /\ entry.ville = GetDefault(pj.address[1], "ville", <<>>)
    /\ KeptStr(entry, SectionGet(pj, "contact", "phone"))
    /\ KeptStr(entry, SectionGet(pj, "contact", "title"))
    /\ KeptStr(entry, SectionGet(pj, "contact", "address"))
    /\ SectionGet(pj, "bdnb", "annee_construction") # None
          => entry.annee_construction = SectionGet(pj, "bdnb", "annee_construction")
    /\ KeptStr(entry, SectionGet(pj, "bdnb", "classe_bilan_dpe"))

\* every non-empty field of the registry record is in the entry (the
\* coordinates apart); the address is kept when the entry's address
\* components give the same address key
RegistryKept(entry, ent) ==
    /\ KeptStr(entry, ent.name)
    /\ KeptStr(entry, ent.category)
    /\ TruthyStr(ent.address)
          => _make_address_key([numero |-> entry.numero, voie |-> entry.voie,
                                code_postal |-> entry.code_postal,
                                ville |-> entry.ville])
                = _normalize_address_key(ent.address[1])
    /\ TruthyStr(ent.phones) => entry.entreprise_phones = ent.phones
    /\ TruthyStr(ent.emails) => entry.entreprise_emails = ent.emails
    /\ TruthyStr(ent.websites) => entry.entreprise_websites = ent.websites
    /\ KeptStr(entry, CompanyGet(ent, "siren"))
    /\ KeptStr(entry, CompanyGet(ent, "siret"))
    /\ KeptStr(entry, CompanyGet(ent, "naf"))
    /\ KeptStr(entry, CompanyGet(ent, "naf_libelle"))
    /\ (TruthyStr(ent.owner_first_name) \/ TruthyStr(ent.owner_last_name))
          => entry.owner_name = _make_owner_name(ent)
    /\ KeptStr(entry, ent.owner_role)
    /\ ent.building_year # None => entry.building_year = ent.building_year
    /\ ent.roof_area_m2 # None => entry.roof_area_m2 = ent.roof_area_m2
    /\ ent.parking_area_m2 # None => entry.parking_area_m2 = ent.parking_area_m2

\* the registry coordinates may only be lost to the directory record's own
CoordsKept(entry, a, ent) ==
    /\ (ent.latitude # None /\ entry.latitude # ent.latitude)
          => (origin[a].pj # 0 /\
              SectionGet(pj_results[origin[a].pj], "coords", "latitude") # None)
    /\ (ent.longitude # None /\ entry.longitude # ent.longitude)
          => (origin[a].pj # 0 /\
              SectionGet(pj_results[origin[a].pj], "coords", "longitude") # None)

\* C4: every entry of the output contains every non-empty field of the
\* record(s) it was built from, the registry coordinates excepted when the
\* directory record has its own.
C4_Lossless ==
    \A a \in Out :
        /\ origin[a].pj # 0 => DirectoryKept(fused[a], pj_results[origin[a].pj])
        /\ origin[a].ent # 0 =>
              /\ RegistryKept(fused[a], entreprise_results[origin[a].ent])
              /\ CoordsKept(fused[a], a, entreprise_results[origin[a].ent])

PjHasCoords(pj) ==
    /\ SectionGet(pj, "coords", "latitude") # None
    /\ SectionGet(pj, "coords", "longitude") # None

\* C6: in a merged entry the coordinates are the directory record's
\* whenever it has coordinates; a coordinate taken from the registry record
\* means the directory record had none.
C6_DirectoryCoordsWin ==
    \A a \in Out :
        Merged(a) =>
            LET pj == pj_results[origin[a].pj]
                ent == entreprise_results[origin[a].ent]
                pjLat == SectionGet(pj, "coords", "latitude")
                pjLon == SectionGet(pj, "coords", "longitude")
            IN  /\ PjHasCoords(pj) =>
                      (fused[a].latitude = pjLat /\ fused[a].longitude = pjLon)
                /\ fused[a].latitude # pjLat =>
                      (pjLat = None /\ fused[a].latitude = ent.latitude)
                /\ fused[a].longitude # pjLon =>
                      (pjLon = None /\ fused[a].longitude = ent.longitude)

\* C6 witness: a directory record with coordinates was merged with a
\* registry record that has other coordinates, and another merged entry
\* took its coordinates from the registry record.
C6_Witness ==
    /\ \E a \in Out :
          /\ Merged(a)
          /\ PjHasCoords(pj_results[origin[a].pj])
          /\ TruthyNum(entreprise_results[origin[a].ent].latitude)
          /\ entreprise_results[origin[a].ent].latitude
                # SectionGet(pj_results[origin[a].pj], "coords", "latitude")
    /\ \E b \in Out :
          /\ Merged(b)
          /\ ~PjHasCoords(pj_results[origin[b].pj])
          /\ fused[b].latitude # None

\* the entry fuse_results builds from the record(s) named by o
EntryOf(o) ==
    IF o.pj # 0
    THEN IF o.ent # 0
         THEN MergeEntry(BaseEntry(pj_results[o.pj]), entreprise_results[o.ent])
         ELSE BaseEntry(pj_results[o.pj])
    ELSE StandaloneEntry(entreprise_results[o.ent])

C8_AtMostNPlusM ==
    Len(fused) <= Len(pj_results) + Len(entreprise_results)

\* C8 witness: fuse_results returned, a registry record was merged, two
\* registry records share an address key, and a record without address or
\* coordinates was among the inputs.
C8_Witness ==
    /\ pc = "done"
    /\ \E a \in Out : Merged(a)
    /\ \/ \E e, f \in 1..Len(entreprise_results) :
             /\ e # f
             /\ TruthyStr(entreprise_results[e].address)
             /\ TruthyStr(entreprise_results[f].address)
             /\ _normalize_address_key(entreprise_results[e].address[1])
                   = _normalize_address_key(entreprise_results[f].address[1])
       \/ \E e \in 1..Len(entreprise_results) :
             ~TruthyStr(entreprise_results[e].address)

\* the entry carries no registry field
NoRegistryField(entry) ==
    /\ entry.entreprise_nom = None /\ entry.entreprise_category = None
    /\ entry.entreprise_phones = None /\ entry.entreprise_emails = None
    /\ entry.entreprise_websites = None /\ entry.entreprise_siren = None
    /\ entry.entreprise_siret = None /\ entry.entreprise_naf = None
    /\ entry.owner_name = None /\ entry.owner_role = None
    /\ entry.roof_area_m2 = None /\ entry.parking_area_m2 = None
    /\ entry.building_year = None

\* C9: once the directory loop is over, every directory record with a
\* non-empty address has exactly one entry (without any registry field if
\* nothing matched), and a directory record whose address is missing or
\* empty has none.
C9_OneEntryPerAddress ==
    pc \in {"ent", "done"} =>
        \A p \in 1..Len(pj_results) :
            IF pj_results[p].address # None /\ DOMAIN pj_results[p].address[1] # {}
            THEN /\ Cardinality(FromPj(p)) = 1
                 /\ \A a \in FromPj(p) : origin[a].ent = 0 => NoRegistryField(fused[a])
            ELSE FromPj(p) = {}

\* C9 witness: fuse_results returned an entry for a directory record with no
\* contact, no building info, no coordinates and no match, and none for a
\* directory record with an empty address dict.
C9_Witness ==
    /\ pc = "done"
    /\ \E p \in 1..Len(pj_results) :
          /\ pj_results[p] = PjBare
          /\ \E a \in FromPj(p) : origin[a].ent = 0 /\ fused[a].latitude = None
    /\ \E p \in 1..Len(pj_results) :
          pj_results[p].address = Some(<<>>) /\ FromPj(p) = {}

\* C10: when fuse_results returns, every registry record without
\* coordinates and without a parseable address (missing, empty or not of
\* the pattern) that was not merged has a registry-only entry whose four
\* address components are empty strings.
C10_UnparseableStillEmitted ==
    pc = "done" =>
        \A e \in 1..Len(entreprise_results) :
            LET ent == entreprise_results[e]
            IN  (/\ ent.latitude = None
                 /\ ent.longitude = None
                 /\ (ent.address = None \/ _parse_address_string(ent.address[1]) = None)
                 /\ ~\E a \in Out : Merged(a) /\ origin[a].ent = e)
                => \E a \in Out :
                      /\ Standalone(a)
                      /\ origin[a].ent = e
                      /\ fused[a].numero = <<>>
                      /\ fused[a].voie = <<>>
                      /\ fused[a].code_postal = <<>>
                      /\ fused[a].ville = <<>>

---------------------------------------------------------------------------
(* fuse_results on registry records that differ by their address text. *)

\* "58bis rue Alger 81600 Gaillac"
AdrBis ==
    <<"5", "8", "b", "i", "s", " ", "r", "u", "e", " ", "A", "l", "g", "e", "r", " ", "8", "1", "6", "0", "0", " ", "G", "a", "i", "l", "l", "a", "c">>

EntBis == [EntBlank EXCEPT !.name = Some("Bis"), !.address = Some(AdrBis)]

ParseEntUniverse == {EntPlain, EntBis, EntTown, EntEmptyAddr}

ParsePjUniverse == {PjBare, PjNoAddr}

InitParse ==
    /\ WorkerIdle
    /\ pj_results \in SeqsUpTo(ParsePjUniverse, 1)
    /\ entreprise_results \in SeqsUpTo(ParseEntUniverse, MaxEnt)
    /\ entreprise_by_addr = <<>>
    /\ entreprise_by_coords = <<>>
    /\ matched_ent_keys = {}
    /\ fused = <<>>
    /\ origin = <<>>
    /\ pc = "index"
    /\ i = 1
    /\ call = [fn |-> "fuse_results", args |-> <<>>]
    /\ result = None
    /\ in_zone = <<>>
    /\ out_zone_interesting = <<>>
    /\ out_zone_excluded = <<>>

SpecParse == InitParse /\ [][Next]_vars

\* C11: in every registry-only entry the four address components are
\* filled exactly when parse_address_string (strict pattern, then the
\* 5-digit-token fallback) parses the registry record's address, and are
\* empty strings otherwise; the directory-only fields are absent.
C11_StandaloneAddressParsed ==
    \A a \in Out :
        Standalone(a) =>
            LET ent == entreprise_results[origin[a].ent]
                parsed == parse_address_string(ent.address)
            IN  /\ parsed # None =>
                      /\ fused[a].numero = parsed[1].numero
                      /\ fused[a].code_postal = parsed[1].code_postal
                /\ parsed = None =>
                      /\ fused[a].numero = <<>>
                      /\ fused[a].voie = <<>>
                      /\ fused[a].code_postal = <<>>
                      /\ fused[a].ville = <<>>
                /\ fused[a].pj_title = None
                /\ fused[a].pj_phone = None
                /\ fused[a].annee_construction = None
                /\ fused[a].classe_bilan_dpe = None

---------------------------------------------------------------------------
(* Calls of the functions of AddressComparator, one call per behaviour. *)

MaxLen == 3

\* upper and lower case, accented letters, punctuation, underscore, whitespace
Alphabet == {"A", "a", "É", "é", ",", "'", "_", " ", "\t"}

Call(fn, args) == [fn |-> fn, args |-> args]

NormalizeCalls == {Call("normalize_string", <<text>>) : text \in SeqsUpTo(Alphabet, MaxLen)}

\* "58 Rue Alger"
Str58RueAlger ==
    <<"5", "8", " ", "R", "u", "e", " ", "A", "l", "g", "e", "r">>

\* "58 R. Alger"
Str58RAlger ==
    <<"5", "8", " ", "R", ".", " ", "A", "l", "g", "e", "r">>

\* "Rue Alger"
StrRueAlgerCap ==
    <<"R", "u", "e", " ", "A", "l", "g", "e", "r">>

\* "Avenue Foch"
StrAvenueFochCap ==
    <<"A", "v", "e", "n", "u", "e", " ", "F", "o", "c", "h">>

\* "de la"
StrDeLa ==
    <<"d", "e", " ", "l", "a">>

\* "du"
StrDu ==
    <<"d", "u">>

\* "Foch"
StrFoch ==
    <<"F", "o", "c", "h">>

\* "Fock"
StrFock ==
    <<"F", "o", "c", "k">>

\* "Boulevard Alger"
StrBoulevardAlger ==
    <<"B", "o", "u", "l", "e", "v", "a", "r", "d", " ", "A", "l", "g", "e", "r">>

\* ","
StrComma ==
    <<",">>

\* "rue de la Paix"
StrRueDeLaPaix ==
    <<"r", "u", "e", " ", "d", "e", " ", "l", "a", " ", "P", "a", "i", "x">>

\* "Paix (rue)"
StrPaixRue ==
    <<"P", "a", "i", "x", " ", "(", "r", "u", "e", ")">>

\* " Alger"
StrAlger ==
    <<" ", "A", "l", "g", "e", "r">>

\* the street named Alger written with the street type form
Street(form) == form \o StrAlger

\* the same street after the house number 58
NumberedStreet(form) == Str58 \o <<" ">> \o form \o StrAlger

\* the pairs of forms that the table lists under the same street type
SameTypeForms ==
    UNION {abbreviations[k].abbreviations \X abbreviations[k].abbreviations :
               k \in 1..Len(abbreviations)}

\* pairs of streets that differ only by the form of the street type
AbbreviationPairs ==
    {<<Street(fg[1]), Street(fg[2])>> : fg \in SameTypeForms}
        \cup {<<NumberedStreet(fg[1]), NumberedStreet(fg[2])>> : fg \in SameTypeForms}

StreetUniverse ==
    {<<>>, Str58RueAlger,
     Str58RAlger,
     StrRueAlgerCap,
     StrAvenueFochCap,
     StrDeLa,
     StrDu,
     StrFoch,
     StrFock,
     StrBoulevardAlger,
     StrComma,
     StrRueDeLaPaix,
     StrPaixRue}

StreetCalls ==
    {Call("compare_streets", pair) :
         pair \in AbbreviationPairs \cup (StreetUniverse \X StreetUniverse)}

\* "58 Fock 81600 Gaillac"
AdrFock ==
    <<"5", "8", " ", "F", "o", "c", "k", " ", "8", "1", "6", "0", "0", " ", "G", "a", "i", "l", "l", "a", "c">>

\* "58 avenue Foch 81600 Gaillac"
AdrAvenueFoch ==
    <<"5", "8", " ", "a", "v", "e", "n", "u", "e", " ", "F", "o", "c", "h", " ", "8", "1", "6", "0", "0", " ", "G", "a", "i", "l", "l", "a", "c">>

\* "12 rue Alger 81600 Gaillac"
AdrOtherNumero ==
    <<"1", "2", " ", "r", "u", "e", " ", "A", "l", "g", "e", "r", " ", "8", "1", "6", "0", "0", " ", "G", "a", "i", "l", "l", "a", "c">>

\* "58 rue Alger 81000 Gaillac"
AdrOtherPostal ==
    <<"5", "8", " ", "r", "u", "e", " ", "A", "l", "g", "e", "r", " ", "8", "1", "0", "0", "0", " ", "G", "a", "i", "l", "l", "a", "c">>

\* "58 rue Alger 81600 Albi"
AdrOtherTown ==
    <<"5", "8", " ", "r", "u", "e", " ", "A", "l", "g", "e", "r", " ", "8", "1", "6", "0", "0", " ", "A", "l", "b", "i">>

\* "rue Alger 81600 Gaillac"
AdrNoNumero ==
    <<"r", "u", "e", " ", "A", "l", "g", "e", "r", " ", "8", "1", "6", "0", "0", " ", "G", "a", "i", "l", "l", "a", "c">>

\* "a 81600 b"
AdrThreeTokens ==
    <<"a", " ", "8", "1", "6", "0", "0", " ", "b">>

\* "58 12345 81600 Gaillac"
AdrTwoPostal ==
    <<"5", "8", " ", "1", "2", "3", "4", "5", " ", "8", "1", "6", "0", "0", " ", "G", "a", "i", "l", "l", "a", "c">>

\* "81600 a b 12345"
AdrPostalFirst ==
    <<"8", "1", "6", "0", "0", " ", "a", " ", "b", " ", "1", "2", "3", "4", "5">>

\* "a b c 81600"
AdrPostalLast ==
    <<"a", " ", "b", " ", "c", " ", "8", "1", "6", "0", "0">>

\* "   "
AdrSpaces ==
    <<" ", " ", " ">>

\* the texts given to parse_address_string and compare_addresses
TextUniverse ==
    {None, Some(<<>>), Some(AdrScenario), Some(AdrPlain), Some(AdrUpper),
     Some(AdrTown), Some(AdrBis),
     Some(AdrFock),
     Some(AdrAvenueFoch),
     Some(AdrOtherNumero),
     Some(AdrOtherPostal),
     Some(AdrOtherTown),
     Some(AdrNoNumero),
     Some(AdrThreeTokens),
     Some(AdrTwoPostal),
     Some(AdrPostalFirst),
     Some(AdrPostalLast),
     Some(AdrSpaces)}

ParseCalls == {Call("parse_address_string", <<text>>) : text \in TextUniverse}

\* the structured addresses given to compare_addresses
AddressUniverse ==
    {[numero |-> Str58, voie |-> StrRueAlger, code_postal |-> Str81600, ville |-> StrGaillac],
     [numero |-> Str58, voie |-> StrFoch, code_postal |-> Str81600, ville |-> StrGaillac],
     [numero |-> Str58, voie |-> Str58RAlger, code_postal |-> Str81600, ville |-> StrGaillac],
     [numero |-> <<>>, voie |-> StrRueAlger, code_postal |-> Str81600, ville |-> StrGaillac],
     [numero |-> Str12, voie |-> StrAvenueFoch, code_postal |-> Str81600, ville |-> StrGaillac],
     [voie |-> StrRueAlger]}

CompareCalls ==
    {Call("compare_addresses", <<address1, address2>>) :
         address1 \in AddressUniverse, address2 \in TextUniverse}

\* the values given for threshold; 0.8 is the default
ThresholdUniverse == {Frac(1, 2), Frac(4, 5), Frac(1, 1)}

MatchCalls ==
    {Call("is_address_match", <<address1, address2, threshold>>) :
         address1 \in AddressUniverse, address2 \in TextUniverse,
         threshold \in ThresholdUniverse}

InitComparator ==
    /\ WorkerIdle
    /\ call \in NormalizeCalls \cup StreetCalls \cup ParseCalls
                 \cup CompareCalls \cup MatchCalls
    /\ result = None
    /\ in_zone = <<>>
    /\ out_zone_interesting = <<>>
    /\ out_zone_excluded = <<>>
    /\ pc = "call"
    /\ pj_results = <<>>
    /\ entreprise_results = <<>>
    /\ entreprise_by_addr = <<>>
    /\ entreprise_by_coords = <<>>
    /\ matched_ent_keys = {}
    /\ fused = <<>>
    /\ origin = <<>>
    /\ i = 1

\* the function returns value
ReturnValue(value) ==
    /\ UNCHANGED worker
    /\ pc = "call"
    /\ result = None
    /\ result' = Some(value)
    /\ pc' = "return"
    /\ UNCHANGED <<call, pj_results, entreprise_results, entreprise_by_addr,
                   entreprise_by_coords, matched_ent_keys, fused, origin, i,
                   in_zone, out_zone_interesting, out_zone_excluded>>

NormalizeString ==
    /\ call.fn = "normalize_string"
    /\ ReturnValue(normalize_string(call.args[1]))

CompareStreets ==
    /\ call.fn = "compare_streets"
    /\ ReturnValue(compare_streets(call.args[1], call.args[2]))

ParseAddressString ==
    /\ call.fn = "parse_address_string"
    /\ ReturnValue(parse_address_string(call.args[1]))

CompareAddresses ==
    /\ call.fn = "compare_addresses"
    /\ ReturnValue(compare_addresses(call.args[1], call.args[2]))

IsAddressMatch ==
    /\ call.fn = "is_address_match"
    /\ ReturnValue(is_address_match(call.args[1], call.args[2], call.args[3]))

NextComparator ==
    \/ NormalizeString
    \/ CompareStreets
    \/ ParseAddressString
    \/ CompareAddresses
    \/ IsAddressMatch

SpecComparator == InitComparator /\ [][NextComparator]_vars

\* the call of fn has returned
Returned(fn) == call.fn = fn /\ result # None

\* the field scores of a returned compare_addresses result
Details == result[1].details

\* C12: compare_addresses answers is_match exactly when each of the four
\* field scores reaches its threshold (numero, code_postal and ville 1.0,
\* voie 0.75); a strict field that scores 0.0 makes is_match false.
C12_MatchIffAllThresholds ==
    Returned("compare_addresses") =>
        /\ result[1].is_match <=>
               /\ Details.numero = One
               /\ Details.code_postal = One
               /\ Details.ville = One
               /\ 4 * Details.voie[1] >= 3 * Details.voie[2]
        /\ (Details.numero = Zero \/ Details.code_postal = Zero \/ Details.ville = Zero)
               => ~result[1].is_match

\* a match whose street is similar but not identical
C12_Witness ==
    /\ Returned("compare_addresses")
    /\ result[1].is_match
    /\ Details.voie # One

\* ten times the weighted sum 0.2, 0.4, 0.2, 0.2 of the field scores
TenfoldSum(details) ==
    FracAdd(FracAdd(FracAdd(FracMul(Frac(2, 1), details.numero),
                            FracMul(Frac(4, 1), details.voie)),
                    FracMul(Frac(2, 1), details.code_postal)),
            FracMul(Frac(2, 1), details.ville))

C14_UnparseableNoMatch ==
    (Returned("compare_addresses") /\ parse_address_string(call.args[2]) = None) =>
        /\ result[1].is_match = FALSE
        /\ result[1].overall_similarity = Zero
        /\ \A k \in 1..Len(Fields) : Details[Fields[k]] = Zero
        /\ result[1].parsed_address2 = None

\* compare_addresses has returned for a text that is not empty and not parseable
C14_Witness ==
    /\ Returned("compare_addresses")
    /\ TruthyStr(call.args[2])
    /\ parse_address_string(call.args[2]) = None
    /\ result[1].parsed_address2 = None

C16_NormalizeIdempotent ==
    Returned("normalize_string") =>
        normalize_string(result[1]) = result[1]

\* a text with an accent, punctuation and a capital has been normalised
C16_Witness ==
    /\ Returned("normalize_string")
    /\ \E k \in 1..Len(call.args[1]) : call.args[1][k] = "É"
    /\ \E k \in 1..Len(call.args[1]) : call.args[1][k] = ","
    /\ result[1] = <<"e">>

\* C17: compare_streets gives at least 0.75 to two streets that differ only
\* by the form of a street type of the table, as '58 Rue Alger' and
\* '58 R. Alger', and less than 0.75 to 'Rue Alger' and 'Avenue Foch'.
C17_AbbreviationsMatch ==
    Returned("compare_streets") =>
        /\ call.args \in AbbreviationPairs \cup {<<Str58RueAlger, Str58RAlger>>}
               => FracLeq(Frac(3, 4), result[1])
        /\ call.args = <<StrRueAlgerCap, StrAvenueFochCap>>
               => ~FracLeq(Frac(3, 4), result[1])

\* 'bd Alger' has been compared with 'boulevard Alger'
C17_Witness ==
    /\ Returned("compare_streets")
    /\ call.args = <<Street(<<"b", "d">>),
                     Street(<<"b", "o", "u", "l", "e", "v", "a", "r", "d">>)>>
    /\ result[1] = One

\* the token-set similarity of two type-normalised streets: the mean, over
\* the words of the first that are not stop words, of the best ratio with a
\* word of the second
TokenSetSimilarity(norm_street1, norm_street2) ==
    LET words1 == StreetWords(norm_street1)
        words2 == StreetWords(norm_street2)
    IN  IF words1 = {} \/ words2 = {} THEN Zero
        ELSE WordSimilarity(words1, words2)

\* C18: for two non-empty streets compare_streets returns the larger of the
\* ratio of the type-normalised strings and their token-set similarity;
\* it returns 0.0 when exactly one street is empty and 1.0 when both are;
\* the result lies in [0, 1].
C18_MaxOfDirectAndTokens ==
    Returned("compare_streets") =>
        LET street1 == call.args[1]
            street2 == call.args[2]
            norm_street1 == normalize_street_type(street1)
            norm_street2 == normalize_street_type(street2)
        IN  /\ (Len(street1) = 0 /\ Len(street2) = 0) => result[1] = One
            /\ (Len(street1) = 0) # (Len(street2) = 0) => result[1] = Zero
            /\ (Len(street1) > 0 /\ Len(street2) > 0) =>
                   result[1] = FracMax(calculate_similarity(norm_street1, norm_street2),
                                       TokenSetSimilarity(norm_street1, norm_street2))
            /\ FracLeq(Zero, result[1]) /\ FracLeq(result[1], One)

---------------------------------------------------------------------------
(* filter_results_by_zone_and_interest (src/src/fusion.py).  In this part   *)
(* the latitudes are whole numbers of metres of meridian arc, and all the  *)
(* points lie on the meridian of the centre.                               *)

MaxFused == 2

\* a variant of haversine_distance that keeps the sign of the difference
haversine_distance_signed(lat1, lon1, lat2, lon2) == lat2 - lat1

\* haversine_distance for two points of one meridian: delta_lambda = 0, so
\* a = sin(delta_phi / 2) ** 2, c = |delta_phi| and R * c is the length of
\* the arc between the two latitudes
haversine_distance(lat1, lon1, lat2, lon2) ==
    IF lat2 >= lat1 THEN lat2 - lat1 ELSE lat1 - lat2

\* lst and len(lst) > 0 and lst[0], for lst = entry.get(field) or []
FirstTruthy(lst) == lst # None /\ Len(lst[1]) > 0 /\ Len(lst[1][1]) > 0

\* The value of an area field is a Python number, [num |-> n], or a string,
\* [str |-> characters]: the registry writes numbers, and
\* is_interesting_result guards itself against anything float() refuses.

\* the number the digits of a string write in base ten
RECURSIVE IntOf(_)
IntOf(s) ==
    IF s = <<>> THEN 0
    ELSE 10 * IntOf(SubSeq(s, 1, Len(s) - 1))
             + (CHOOSE d \in 0..9 : ToString(d) = s[Len(s)])

\* ten to the power n
RECURSIVE Pow10(_)
Pow10(n) == IF n = 0 THEN 1 ELSE 10 * Pow10(n - 1)

\* the number a stripped string writes: digits with at most one decimal
\* point and at least one digit; anything else raises ValueError (None here)
Decimal(s) ==
    LET points == {k \in 1..Len(s) : s[k] = "."}
        whole == IF points = {} THEN s
                 ELSE SubSeq(s, 1, (CHOOSE k \in points : TRUE) - 1)
        decimals == IF points = {} THEN <<>>
                    ELSE SubSeq(s, (CHOOSE k \in points : TRUE) + 1, Len(s))
    IN  IF /\ Cardinality(points) <= 1
           /\ \A k \in 1..Len(s) : s[k] \in Digits \cup {"."}
           /\ Len(whole) + Len(decimals) > 0
        THEN Some(Frac(IntOf(whole \o decimals), Pow10(Len(decimals))))
        ELSE None

\* a variant of float that reads the leading digits of a string
float_leading_digits(value) ==
    IF "num" \in DOMAIN value THEN Some(Frac(value.num, 1))
    ELSE LET s == Strip(value.str)
         IN  IF LeadingDigits(s) = 0 THEN None
             ELSE Some(Frac(IntOf(SubSeq(s, 1, LeadingDigits(s))), 1))

\* float(value): a number is itself; a string is stripped and read
float(value) ==
    IF "num" \in DOMAIN value THEN Some(Frac(value.num, 1))
    ELSE Decimal(Strip(value.str))

\* truth value of an optional area: None, 0 and '' are false
TruthyArea(o) ==
    o # None /\ (IF "num" \in DOMAIN o[1] THEN o[1].num # 0 ELSE Len(o[1].str) > 0)

\* lines 84-101: if area: try: float(area) >= threshold, except: pass
AreaAtLeast(o, threshold) ==
    /\ TruthyArea(o)
    /\ float(o[1]) # None
    /\ FracLeq(Frac(threshold, 1), float(o[1])[1])

\* the criteria of is_interesting_result in the order of the code: the
\* reason, the points, and whether the entry meets the criterion
Criteria(entry) ==
    <<[reason |-> "telephone", points |-> 2,
       met |-> TruthyStr(entry.pj_phone) \/ FirstTruthy(entry.entreprise_phones)],
      [reason |-> "email", points |-> 2,
       met |-> FirstTruthy(entry.entreprise_emails)],
      [reason |-> "site_web", points |-> 1,
       met |-> FirstTruthy(entry.entreprise_websites)],
      [reason |-> "siret_siren", points |-> 2,
       met |-> TruthyStr(entry.entreprise_siret) \/ TruthyStr(entry.entreprise_siren)],
      [reason |-> "nom_identifie", points |-> 1,
       met |-> TruthyStr(entry.entreprise_nom) \/ TruthyStr(entry.pj_title)],
      [reason |-> "dpe", points |-> 1,
       met |-> TruthyStr(entry.classe_bilan_dpe)],
      [reason |-> "grande_surface_toiture", points |-> 2,
       met |-> AreaAtLeast(entry.roof_area_m2, 100)],
      [reason |-> "parking", points |-> 1,
       met |-> AreaAtLeast(entry.parking_area_m2, 200)],
      [reason |-> "proprietaire_identifie", points |-> 1,
       met |-> TruthyStr(entry.owner_name)]>>

\* score after the first n criteria
RECURSIVE Score(_, _)
Score(entry, n) ==
    IF n = 0 THEN 0
    ELSE Score(entry, n - 1)
             + (IF Criteria(entry)[n].met THEN Criteria(entry)[n].points ELSE 0)

\* reasons after the first n criteria
RECURSIVE Reasons(_, _)
Reasons(entry, n) ==
    IF n = 0 THEN <<>>
    ELSE Reasons(entry, n - 1)
             \o (IF Criteria(entry)[n].met THEN <<Criteria(entry)[n].reason>> ELSE <<>>)

\* a variant of is_interesting_result that asks for a score of 2
is_interesting_result_two(entry) ==
    <<Score(entry, Len(Criteria(entry))) >= 2, Reasons(entry, Len(Criteria(entry)))>>

\* is_interesting_result: <<is_interesting, reasons>>
is_interesting_result(entry) ==
    <<Score(entry, Len(Criteria(entry))) >= 3, Reasons(entry, Len(Criteria(entry)))>>

\* truth value of an optional list (None and [] are false)
TruthyList(o) == o # None /\ Len(o[1]) > 0

\* a variant of has_useful_data that counts the roof area as useful
has_useful_data_roof(entry) ==
    \/ TruthyStr(entry.pj_title) \/ TruthyStr(entry.pj_phone)
    \/ TruthyStr(entry.entreprise_nom)
    \/ TruthyStr(entry.entreprise_siren) \/ TruthyStr(entry.entreprise_siret)
    \/ TruthyList(entry.entreprise_phones)
    \/ TruthyList(entry.entreprise_emails)
    \/ TruthyList(entry.entreprise_websites)
    \/ TruthyStr(entry.owner_name)
    \/ TruthyNum(entry.annee_construction) \/ TruthyStr(entry.classe_bilan_dpe)
    \/ TruthyArea(entry.roof_area_m2)

\* has_useful_data
has_useful_data(entry) ==
    \/ TruthyStr(entry.pj_title) \/ TruthyStr(entry.pj_phone)
    \/ TruthyStr(entry.entreprise_nom)
    \/ TruthyStr(entry.entreprise_siren) \/ TruthyStr(entry.entreprise_siret)
    \/ TruthyList(entry.entreprise_phones)
    \/ TruthyList(entry.entreprise_emails)
    \/ TruthyList(entry.entreprise_websites)
    \/ TruthyStr(entry.owner_name)
    \/ TruthyNum(entry.annee_construction) \/ TruthyStr(entry.classe_bilan_dpe)

\* a variant of Zone with exclusive boundaries
ZoneExclusive(distance, radius_km) ==
    LET radius_m == radius_km * 1000
    IN  IF distance < radius_m THEN "in_zone"
        ELSE IF 10 * distance < 12 * radius_m THEN "in_tolerance_zone"
        ELSE "out"

\* lines 160-167: radius_m = radius_km * 1000, tolerance_m = radius_m * 1.2
Zone(distance, radius_km) ==
    LET radius_m == radius_km * 1000
    IN  IF distance <= radius_m THEN "in_zone"
        ELSE IF 10 * distance <= 12 * radius_m THEN "in_tolerance_zone"
        ELSE "out"

\* a variant of ByInterest that gives every entry the status of a kept one
ByInterestKeptStatus(entry, kept, excluded) ==
    LET interesting == is_interesting_result(entry)
    IN  IF interesting[1]
        THEN [entry |-> Put(Put(entry, "_filter_status", kept),
                            "_interest_reasons", interesting[2]),
              list |-> "out_zone_interesting"]
        ELSE [entry |-> Put(entry, "_filter_status", kept),
              list |-> "out_zone_excluded"]

\* lines 141-152 and 168-176: the entry is kept if it is interesting
ByInterest(entry, kept, excluded) ==
    LET interesting == is_interesting_result(entry)
    IN  IF interesting[1]
        THEN [entry |-> Put(Put(entry, "_filter_status", kept),
                            "_interest_reasons", interesting[2]),
              list |-> "out_zone_interesting"]
        ELSE [entry |-> Put(entry, "_filter_status", excluded),
              list |-> "out_zone_excluded"]

\* the body of the loop: the entry as it is left, and the list it is added to
FilterEntry(entry, center_lat, center_lon, radius_km) ==
    IF entry.latitude = None \/ entry.longitude = None
    THEN ByInterest(entry, "no_coords_but_interesting", "no_coords_excluded")
    ELSE LET distance == haversine_distance(center_lat, center_lon,
                                            entry.latitude[1], entry.longitude[1])
             measured == Put(entry, "_distance_to_center", distance)
         IN  IF Zone(distance, radius_km) = "out"
             THEN ByInterest(measured, "out_zone_interesting", "out_zone_excluded")
             ELSE [entry |-> Put(measured, "_filter_status", Zone(distance, radius_km)),
                   list |-> "in_zone"]

\* a fused entry with nothing but empty address components
FusedBlank ==
    [numero |-> <<>>, voie |-> <<>>, code_postal |-> <<>>, ville |-> <<>>,
     latitude |-> None, longitude |-> None,
     pj_title |-> None, pj_phone |-> None,
     annee_construction |-> None, classe_bilan_dpe |-> None,
     entreprise_nom |-> None, entreprise_category |-> None,
     entreprise_phones |-> None, entreprise_emails |-> None,
     entreprise_websites |-> None, entreprise_siren |-> None,
     entreprise_siret |-> None, entreprise_naf |-> None,
     owner_name |-> None, owner_role |-> None,
     roof_area_m2 |-> None, parking_area_m2 |-> None, building_year |-> None]

\* score 1: a name and nothing else
FusedDull == [FusedBlank EXCEPT !.entreprise_nom = Some("Alger SARL")]

\* score 3: a directory phone and title
FusedInteresting ==
    [FusedBlank EXCEPT !.pj_phone = Some("0563000000"), !.pj_title = Some("Boulangerie Alger")]

\* the directory phone and the registry phones
PhoneChoices ==
    {<<None, None>>, <<Some("0563000000"), None>>,
     <<None, Some(<<"0563111111">>)>>, <<None, Some(<<>>)>>}

\* a list field of the registry
ListChoices(value) == {None, Some(<<value>>)}

\* SIREN and SIRET
IdChoices == {<<None, None>>, <<Some("552100554"), None>>, <<None, Some("55210055400013")>>}

\* the registry name and the directory title
NameChoices == {<<None, None>>, <<Some("Alger SARL"), None>>, <<None, Some("Boulangerie Alger")>>}

Str120m2 == <<"1", "2", "0", " ", "m", "2">>

Str250m == <<"2", "5", "0", "m">>

RoofChoices == {None, Some([num |-> 100]), Some([str |-> Str120m2])}

ParkingChoices == {None, Some([num |-> 200]), Some([str |-> Str250m])}

\* every combination of the signals
SignalUniverse ==
    {[FusedBlank EXCEPT !.pj_phone = phone[1], !.entreprise_phones = phone[2],
                        !.entreprise_emails = emails, !.entreprise_websites = websites,
                        !.entreprise_siren = id[1], !.entreprise_siret = id[2],
                        !.entreprise_nom = name[1], !.pj_title = name[2],
                        !.classe_bilan_dpe = dpe, !.roof_area_m2 = roof,
                        !.parking_area_m2 = parking, !.owner_name = owner] :
         phone \in PhoneChoices, emails \in ListChoices("contact@alger.fr"),
         websites \in ListChoices("alger.fr"), id \in IdChoices, name \in NameChoices,
         dpe \in {None, Some("D")}, roof \in RoofChoices, parking \in ParkingChoices,
         owner \in {None, Some("Jean Alger")}}

\* score 3: a roof of 100 m2, a parking of 200 m2 and nothing else
FusedAreas ==
    [FusedBlank EXCEPT !.roof_area_m2 = Some([num |-> 100]),
                       !.parking_area_m2 = Some([num |-> 200])]

CenterLat == 10000

CenterLon == 200

\* latitudes at 0, 1000, 1001, 1200, 1201 and 2400 metres from the centre,
\* north and south of it
LatitudeUniverse == {10000, 11000, 8999, 11200, 11201, 7600}

FusedUniverse ==
    {[e EXCEPT !.latitude = Some(lat), !.longitude = Some(CenterLon)] :
         e \in {FusedDull, FusedInteresting}, lat \in LatitudeUniverse}
    \cup {FusedDull, FusedInteresting,
          [FusedDull EXCEPT !.latitude = Some(CenterLat)],
          [FusedInteresting EXCEPT !.longitude = Some(CenterLon)]}
    \cup {FusedBlank, FusedAreas,
          [FusedBlank EXCEPT !.latitude = Some(CenterLat), !.longitude = Some(CenterLon)],
          [FusedAreas EXCEPT !.latitude = Some(11201), !.longitude = Some(CenterLon)],
          [FusedAreas EXCEPT !.latitude = Some(7600), !.longitude = Some(CenterLon)],
          [FusedAreas EXCEPT !.annee_construction = Some(1975)]}

RadiusUniverse == {1, 2}

InitFilter ==
    /\ WorkerIdle
    /\ \E radius_km \in RadiusUniverse :
           /\ call = Call("filter_results_by_zone_and_interest",
                          <<CenterLat, CenterLon, radius_km>>)
           /\ \/ fused \in SeqsUpTo(FusedUniverse, MaxFused)
              \/ /\ radius_km = 1
                 /\ fused \in {<<entry>> : entry \in SignalUniverse}
    /\ result = None
    /\ in_zone = <<>>
    /\ out_zone_interesting = <<>>
    /\ out_zone_excluded = <<>>
    /\ pc = "filter"
    /\ i = 1
    /\ pj_results = <<>>
    /\ entreprise_results = <<>>
    /\ entreprise_by_addr = <<>>
    /\ entreprise_by_coords = <<>>
    /\ matched_ent_keys = {}
    /\ origin = <<>>

\* one iteration of the loop over fused_data
FilterStep ==
    /\ UNCHANGED worker
    /\ pc = "filter"
    /\ i <= Len(fused)
    /\ LET filtered == FilterEntry(fused[i], call.args[1], call.args[2], call.args[3])
       IN  /\ fused' = [fused EXCEPT ![i] = filtered.entry]
           /\ in_zone' = IF filtered.list = "in_zone"
                         THEN Append(in_zone, i) ELSE in_zone
           /\ out_zone_interesting' = IF filtered.list = "out_zone_interesting"
                                      THEN Append(out_zone_interesting, i)
                                      ELSE out_zone_interesting
           /\ out_zone_excluded' = IF filtered.list = "out_zone_excluded"
                                   THEN Append(out_zone_excluded, i)
                                   ELSE out_zone_excluded
    /\ i' = i + 1
    /\ UNCHANGED <<call, result, pc, pj_results, entreprise_results,
                   entreprise_by_addr, entreprise_by_coords, matched_ent_keys, origin>>

\* the loop is over: return the three lists
FilterReturn ==
    /\ UNCHANGED worker
    /\ pc = "filter"
    /\ i > Len(fused)
    /\ result' = Some(<<in_zone, out_zone_interesting, out_zone_excluded>>)
    /\ pc' = "return"
    /\ UNCHANGED <<call, fused, in_zone, out_zone_interesting, out_zone_excluded, i,
                   pj_results, entreprise_results, entreprise_by_addr,
                   entreprise_by_coords, matched_ent_keys, origin>>

\* a variant of filter_empty_results that keeps every entry
filter_empty_results_all(fused_data) == fused_data

\* filter_empty_results, on a list of positions of fused
filter_empty_results(fused_data) ==
    SelectSeq(fused_data, LAMBDA k : has_useful_data(fused[k]))

\* save_filtered_results, called with the three lists of the filter
\* (ui.py 213-216): main_results = in_zone + out_zone_interesting, filtered
\* by filter_empty_results, written to the CSV file and returned
SaveFilteredResults ==
    /\ UNCHANGED worker
    /\ pc = "return"
    /\ call.fn = "filter_results_by_zone_and_interest"
    /\ call' = Call("save_filtered_results", result[1])
    /\ result' = Some(filter_empty_results(result[1][1] \o result[1][2]))
    /\ pc' = "saved"
    /\ UNCHANGED <<fused, in_zone, out_zone_interesting, out_zone_excluded, i,
                   pj_results, entreprise_results, entreprise_by_addr,
                   entreprise_by_coords, matched_ent_keys, origin>>

NextFilter ==
    \/ FilterStep
    \/ FilterReturn
    \/ SaveFilteredResults

SpecFilter == InitFilter /\ [][NextFilter]_vars

\* the positions a list of the filter holds
Positions(list) == {list[k] : k \in 1..Len(list)}

\* the entries the loop has gone through
Filtered == IF pc \in {"filter", "return"} THEN 1..(i - 1) ELSE {}

\* C20: the status of a filtered entry is decided by its coordinates, its
\* distance d to the centre and is_interesting_result: without coordinates
\* no_coords_but_interesting or no_coords_excluded; d <= radius_km * 1000
\* in_zone; radius < d <= 1.2 * radius in_tolerance_zone; beyond that
\* out_zone_interesting or out_zone_excluded.  in_zone and in_tolerance_zone
\* entries are in the first list whether interesting or not.
C20_StatusByZoneAndInterest ==
    \A k \in Filtered :
        LET entry == fused[k]
            status == entry["_filter_status"]
            interesting == is_interesting_result(entry)[1]
            radius_m == call.args[3] * 1000
            d == IF entry.latitude[1] >= call.args[1]
                 THEN entry.latitude[1] - call.args[1]
                 ELSE call.args[1] - entry.latitude[1]
        IN  IF entry.latitude = None \/ entry.longitude = None
            THEN /\ status = (IF interesting THEN "no_coords_but_interesting"
                                             ELSE "no_coords_excluded")
                 /\ k \notin Positions(in_zone)
            ELSE /\ d <= radius_m => status = "in_zone"
                 /\ (radius_m < d /\ 10 * d <= 12 * radius_m)
                        => status = "in_tolerance_zone"
                 /\ 10 * d > 12 * radius_m
                        => status = (IF interesting THEN "out_zone_interesting"
                                                    ELSE "out_zone_excluded")
                 /\ status \in {"in_zone", "in_tolerance_zone"} <=> k \in Positions(in_zone)

\* an entry that is not interesting, exactly 1.2 * radius from the centre,
\* is kept in the first list, after one exactly on the radius
C20_Witness ==
    /\ pc = "return"
    /\ Len(fused) = 2
    /\ fused[1]["_filter_status"] = "in_zone"
    /\ fused[1]["_distance_to_center"] = call.args[3] * 1000
    /\ fused[2]["_filter_status"] = "in_tolerance_zone"
    /\ 10 * fused[2]["_distance_to_center"] = 12 * call.args[3] * 1000
    /\ ~is_interesting_result(fused[2])[1]
    /\ result[1][1] = <<1, 2>>

---------------------------------------------------------------------------
(* is_interesting_result and has_useful_data called on one fused entry     *)

\* area values around the thresholds, well and badly written
AreaUniverse ==
    {[num |-> 0], [num |-> 99], [num |-> 100], [num |-> 199], [num |-> 200],
     [str |-> <<>>], [str |-> <<"9", "9", ".", "9">>], [str |-> <<"1", "0", "0">>],
     [str |-> <<" ", "2", "0", "0", ".", "0", " ">>], [str |-> <<"1", "9", "9", ".", "5">>],
     [str |-> <<"1", "5", "0", ",", "5">>], [str |-> <<"2", "5", "0", ",", "0">>],
     [str |-> <<"1", ".", "2", ".", "3">>], [str |-> <<".">>],
     [str |-> <<"n", "/", "a">>], [str |-> Str120m2], [str |-> Str250m]}

\* entries of score 0, 1 and 2 apart from the areas
AreaBases ==
    {FusedBlank, FusedDull, [FusedBlank EXCEPT !.entreprise_siren = Some("552100554")],
     [FusedBlank EXCEPT !.annee_construction = Some(1975)]}

InterestUniverse ==
    SignalUniverse
    \cup {[e EXCEPT !.roof_area_m2 = Some(roof), !.parking_area_m2 = parking] :
              e \in AreaBases, roof \in AreaUniverse, parking \in ParkingChoices}
    \cup {[e EXCEPT !.parking_area_m2 = Some(parking), !.roof_area_m2 = roof] :
              e \in AreaBases, parking \in AreaUniverse, roof \in RoofChoices}

InterestCalls ==
    {Call(fn, <<entry>>) : fn \in {"is_interesting_result", "has_useful_data"},
                           entry \in InterestUniverse}

InitInterest ==
    /\ WorkerIdle
    /\ call \in InterestCalls
    /\ result = None
    /\ in_zone = <<>>
    /\ out_zone_interesting = <<>>
    /\ out_zone_excluded = <<>>
    /\ pc = "call"
    /\ pj_results = <<>>
    /\ entreprise_results = <<>>
    /\ entreprise_by_addr = <<>>
    /\ entreprise_by_coords = <<>>
    /\ matched_ent_keys = {}
    /\ fused = <<>>
    /\ origin = <<>>
    /\ i = 1

IsInterestingResult ==
    /\ call.fn = "is_interesting_result"
    /\ ReturnValue(is_interesting_result(call.args[1]))

HasUsefulData ==
    /\ call.fn = "has_useful_data"
    /\ ReturnValue(has_useful_data(call.args[1]))

NextInterest ==
    \/ IsInterestingResult
    \/ HasUsefulData

SpecInterest == InitInterest /\ [][NextInterest]_vars

\* 1 if the condition holds, else 0
Indicator(condition) == IF condition THEN 1 ELSE 0

\* the area is a number, or a well written one, of at least threshold
AreaReaches(o, threshold) ==
    /\ o # None
    /\ float(o[1]) # None
    /\ float(o[1])[1][1] >= threshold * float(o[1])[1][2]

\* the signals of the entry, by the reason is_interesting_result gives
Signals(entry) ==
    [telephone |-> \/ entry.pj_phone \notin {None, Some("")}
                   \/ entry.entreprise_phones \notin {None, Some(<<>>)},
     email |-> entry.entreprise_emails \notin {None, Some(<<>>)},
     site_web |-> entry.entreprise_websites \notin {None, Some(<<>>)},
     siret_siren |-> \/ entry.entreprise_siren \notin {None, Some("")}
                     \/ entry.entreprise_siret \notin {None, Some("")},
     nom_identifie |-> \/ entry.entreprise_nom \notin {None, Some("")}
                       \/ entry.pj_title \notin {None, Some("")},
     dpe |-> entry.classe_bilan_dpe \notin {None, Some("")},
     grande_surface_toiture |-> AreaReaches(entry.roof_area_m2, 100),
     parking |-> AreaReaches(entry.parking_area_m2, 200),
     proprietaire_identifie |-> entry.owner_name \notin {None, Some("")}]

\* the additive score of the signals
SignalScore(entry) ==
    LET signal == Signals(entry)
    IN  2 * Indicator(signal.telephone) + 2 * Indicator(signal.email)
        + Indicator(signal.site_web) + 2 * Indicator(signal.siret_siren)
        + Indicator(signal.nom_identifie) + Indicator(signal.dpe)
        + 2 * Indicator(signal.grande_surface_toiture) + Indicator(signal.parking)
        + Indicator(signal.proprietaire_identifie)

\* C22: is_interesting_result is true exactly when the additive score is at
\* least 3 (2 phone, 2 email, 1 website, 2 SIREN or SIRET, 1 name or title,
\* 1 energy class, 2 roof >= 100, 1 parking >= 200, 1 owner name), and the
\* reasons are exactly the signals that scored.
C22_InterestingFromThree ==
    Returned("is_interesting_result") =>
        LET entry == call.args[1]
            reasons == result[1][2]
        IN  /\ result[1][1] <=> SignalScore(entry) >= 3
            /\ \A reason \in DOMAIN Signals(entry) :
                   Signals(entry)[reason]
                       <=> Cardinality({k \in 1..Len(reasons) : reasons[k] = reason}) = 1
            /\ \A k \in 1..Len(reasons) : reasons[k] \in DOMAIN Signals(entry)

\* a phone and a name make 3: interesting, for these two reasons
C22_Witness ==
    /\ Returned("is_interesting_result")
    /\ SignalScore(call.args[1]) = 3
    /\ result[1] = <<TRUE, <<"telephone", "nom_identifie">>>>

\* the area is a string that does not write a number
Malformed(o) ==
    /\ o # None
    /\ "str" \in DOMAIN o[1]
    /\ \E k \in 1..Len(o[1].str) : o[1].str[k] \notin Digits \cup {".", " ", "\t"}

\* C23: a roof_area_m2 or parking_area_m2 that cannot be read as a number
\* gives no point and no reason; the result is the one of the same entry
\* without the field.
C23_MalformedAreaIgnored ==
    Returned("is_interesting_result") =>
        LET entry == call.args[1]
        IN  /\ Malformed(entry.roof_area_m2)
                  => /\ \A k \in 1..Len(result[1][2]) :
                            result[1][2][k] # "grande_surface_toiture"
                     /\ result[1] = is_interesting_result([entry EXCEPT !.roof_area_m2 = None])
            /\ Malformed(entry.parking_area_m2)
                  => /\ \A k \in 1..Len(result[1][2]) : result[1][2][k] # "parking"
                     /\ result[1] = is_interesting_result([entry EXCEPT !.parking_area_m2 = None])

\* '120 m2' on an entry of score 2: not interesting, the roof does not count
C23_Witness ==
    /\ Returned("is_interesting_result")
    /\ call.args[1].roof_area_m2 = Some([str |-> Str120m2])
    /\ Malformed(call.args[1].roof_area_m2)
    /\ result[1] = <<FALSE, <<"siret_siren">>>>

\* the criteria the docstring of is_interesting_result lists
ListedCriteria(entry) ==
    LET signal == Signals(entry)
    IN  Indicator(signal.telephone) + Indicator(signal.email)
        + Indicator(signal.site_web) + Indicator(signal.siret_siren)
        + Indicator(signal.nom_identifie) + Indicator(signal.dpe)
        + Indicator(/\ AreaReaches(entry.roof_area_m2, 100)
                    /\ float(entry.roof_area_m2[1])[1] # Frac(100, 1))

\* C25: a result is interesting when at least 2 of the criteria the
\* docstring lists (phone, email, website, SIRET/SIREN, identified name,
\* DPE information, roof area above 100 m2) are satisfied.
C25_InterestingFromTwoCriteria ==
    Returned("is_interesting_result") =>
        (ListedCriteria(call.args[1]) >= 2 => result[1][1])

---------------------------------------------------------------------------
(* Properties of the filter and of save_filtered_results *)

\* the fields of an entry apart from its coordinates and the filter's marks
Content(entry) == [f \in DOMAIN FusedBlank \ {"latitude", "longitude"} |-> entry[f]]

\* the length of the arc from the centre of the call to the entry
ArcToCenter(entry) ==
    IF entry.latitude[1] >= call.args[1] THEN entry.latitude[1] - call.args[1]
    ELSE call.args[1] - entry.latitude[1]

\* the positions the filter keeps
Kept == Positions(in_zone) \cup Positions(out_zone_interesting)

\* C21: for one centre, one radius and one content, an entry that is kept
\* (in_zone or interesting) at distance d is never in the excluded list at a
\* distance d' <= d: bringing an entry closer never moves it from a kept
\* list to the excluded one.
C21_ZoneMonotone ==
    \A k, m \in Filtered :
        (/\ fused[k].latitude # None /\ fused[k].longitude # None
         /\ fused[m].latitude # None /\ fused[m].longitude # None
         /\ Content(fused[k]) = Content(fused[m])
         /\ ArcToCenter(fused[m]) <= ArcToCenter(fused[k])
         /\ k \in Kept)
            => /\ m \in Kept
               /\ m \notin Positions(out_zone_excluded)
               /\ fused[m]["_filter_status"] # "out_zone_excluded"
               /\ fused[k]["_filter_status"] = "in_zone"
                      => fused[m]["_filter_status"] = "in_zone"

\* an entry that is not interesting, kept at 1200 m for a radius of 1 km, is
\* kept at 1001 m too, south of the centre
C21_Witness ==
    /\ pc = "return"
    /\ Len(fused) = 2
    /\ Content(fused[1]) = Content(fused[2])
    /\ ~is_interesting_result(fused[1])[1]
    /\ fused[1].latitude # None /\ fused[2].latitude # None
    /\ ArcToCenter(fused[1]) = 1200 /\ call.args[3] = 1
    /\ ArcToCenter(fused[2]) = 1001 /\ fused[2].latitude[1] < call.args[1]
    /\ result[1][1] = <<1, 2>>

\* one of the strings is filled in
FilledStr(values) == \E v \in values : v \notin {None, Some("")}

\* one of the lists is filled in
FilledList(values) == \E v \in values : v \notin {None, Some(<<>>)}

\* the entry holds something other than an address, coordinates and areas
Useful(entry) ==
    \/ FilledStr({entry.pj_title, entry.pj_phone, entry.entreprise_nom})
    \/ FilledStr({entry.entreprise_siren, entry.entreprise_siret})
    \/ FilledList({entry.entreprise_phones, entry.entreprise_emails,
                   entry.entreprise_websites})
    \/ FilledStr({entry.owner_name, entry.classe_bilan_dpe})
    \/ entry.annee_construction \notin {None, Some(0)}

\* C24: save_filtered_results returns the in_zone entries followed by the
\* out_zone_interesting entries, without those for which has_useful_data is
\* false (no directory title or phone, registry name, SIREN, SIRET, phone,
\* email, website, owner name, construction year nor DPE class); no excluded
\* entry is reported, and an empty entry is dropped even in the zone.
C24_FinalResults ==
    pc = "saved" =>
        /\ result[1] = SelectSeq(in_zone \o out_zone_interesting,
                                 LAMBDA k : Useful(fused[k]))
        /\ \A k \in Positions(out_zone_excluded) : k \notin Positions(result[1])
        /\ \A k \in 1..Len(fused) :
               Content(fused[k]) = Content(FusedBlank) => k \notin Positions(result[1])

\* an empty entry at the centre is dropped, an interesting one outside the
\* zone is reported
C24_Witness ==
    /\ pc = "saved"
    /\ Len(fused) = 2
    /\ Content(fused[1]) = Content(FusedBlank)
    /\ in_zone = <<1>>
    /\ out_zone_interesting = <<2>>
    /\ result[1] = <<2>>

\* the list is in the order of the input, without repetition
Ascending(list) == \A a, b \in 1..Len(list) : a < b => list[a] < list[b]

\* C27: the filter partitions its input: every entry gone through is in
\* exactly one of the three lists, the lengths add up, each list is in the
\* order of the input, _filter_status agrees with the list, and
\* _distance_to_center is set exactly for the entries with both coordinates.
C27_Partition ==
    pc \in {"filter", "return"} /\ call.fn = "filter_results_by_zone_and_interest" =>
        /\ \A k \in Filtered :
               LET status == fused[k]["_filter_status"]
               IN  /\ Cardinality({list \in {in_zone, out_zone_interesting, out_zone_excluded} :
                                       k \in Positions(list)}) = 1
                   /\ k \in Positions(in_zone)
                          <=> status \in {"in_zone", "in_tolerance_zone"}
                   /\ k \in Positions(out_zone_interesting)
                          <=> status \in {"out_zone_interesting", "no_coords_but_interesting"}
                   /\ k \in Positions(out_zone_excluded)
                          <=> status \in {"out_zone_excluded", "no_coords_excluded"}
                   /\ "_distance_to_center" \in DOMAIN fused[k]
                          <=> (fused[k].latitude # None /\ fused[k].longitude # None)
        /\ Len(in_zone) + Len(out_zone_interesting) + Len(out_zone_excluded) = i - 1
        /\ Ascending(in_zone) /\ Ascending(out_zone_interesting) /\ Ascending(out_zone_excluded)
        /\ pc = "return" => /\ i - 1 = Len(fused)
                            /\ result[1] = <<in_zone, out_zone_interesting, out_zone_excluded>>

\* an interesting entry without coordinates, then a dull one out of the zone
C27_Witness ==
    /\ pc = "return"
    /\ result[1] = <<<<>>, <<1>>, <<2>>>>
    /\ fused[1]["_filter_status"] = "no_coords_but_interesting"
    /\ "_distance_to_center" \notin DOMAIN fused[1]
    /\ fused[2]["_filter_status"] = "out_zone_excluded"
    /\ fused[2]["_distance_to_center"] = 1201

\* the roof and the parking score, and nothing else is filled in
AreasOnly(entry) ==
    /\ Signals(entry).grande_surface_toiture
    /\ Signals(entry).parking
    /\ ~Useful(entry)

\* C28: an entry whose only signals are a roof of at least 100 m2 and a
\* parking of at least 200 m2 scores 3 and is classified out_zone_interesting
\* or no_coords_but_interesting, yet save_filtered_results removes it; an
\* entry that reaches 3 any other way is reported.
C28_InterestingNotUseful ==
    pc = "saved" =>
        \A k \in 1..Len(fused) :
            /\ (AreasOnly(fused[k]) /\ k \notin Positions(in_zone))
                   => /\ SignalScore(fused[k]) = 3
                      /\ k \in Positions(out_zone_interesting)
                      /\ fused[k]["_filter_status"]
                             \in {"out_zone_interesting", "no_coords_but_interesting"}
            /\ k \in Positions(out_zone_interesting)
                   => /\ SignalScore(fused[k]) >= 3
                      /\ k \notin Positions(result[1]) <=> AreasOnly(fused[k])

\* a roof and a parking without coordinates: interesting, and not reported
C28_Witness ==
    /\ pc = "saved"
    /\ Len(fused) = 1
    /\ fused[1].latitude = None
    /\ AreasOnly(fused[1])
    /\ fused[1]["_filter_status"] = "no_coords_but_interesting"
    /\ out_zone_interesting = <<1>>
    /\ result[1] = <<>>

---------------------------------------------------------------------------
(* The comparator and an address without a number *)

\* C29: a structured address whose numero is empty never matches: every
\* address parse_address_string returns has a numero that is not empty, so
\* compare_numbers gives 0.0 and is_match is false for every text, and
\* is_address_match is false for every threshold.
C29_EmptyNumeroNeverMatches ==
    /\ (Returned("parse_address_string") /\ result[1] # None)
           => Len(result[1][1].numero) > 0
    /\ (Returned("compare_addresses") /\ GetDefault(call.args[1], "numero", <<>>) = <<>>)
           => /\ ~result[1].is_match
              /\ "numero" \in DOMAIN Details => Details.numero = Zero
    /\ (Returned("is_address_match") /\ GetDefault(call.args[1], "numero", <<>>) = <<>>)
           => ~result[1]

\* the street, the postal code and the town are those of the text, and the
\* address without a number still does not match
C29_Witness ==
    /\ Returned("compare_addresses")
    /\ "numero" \in DOMAIN call.args[1] /\ call.args[1].numero = <<>>
    /\ "numero" \in DOMAIN Details
    /\ Details.numero = Zero
    /\ Details.voie = One /\ Details.code_postal = One /\ Details.ville = One
    /\ ~result[1].is_match

---------------------------------------------------------------------------
(* fuse_results and the filter on coordinates equal to 0 *)

\* a registry record on the equator, at the address of PjScenario
EntZeroLat == [EntPlain EXCEPT !.latitude = Some(0), !.longitude = Some(190650)]

\* a registry record 0.00003 degree north of the equator: round(lat, 4) is 0.0
EntNearZero ==
    [EntTown EXCEPT !.latitude = Some(3), !.longitude = Some(190650)]

\* a registry record on the Greenwich meridian
EntZeroLon ==
    [EntBlank EXCEPT !.name = Some("Greenwich"), !.address = Some(AdrBis),
                     !.latitude = Some(4389850), !.longitude = Some(0)]

\* directory records with a coordinate equal to 0, at an address of their own
PjZeroLat ==
    [address |-> Some(AddrFoch),
     coords |-> Some([latitude |-> 0, longitude |-> 190650]),
     contact |-> Some([phone |-> "0563555555"]),
     bdnb |-> None]

PjZeroLon ==
    [address |-> Some(AddrFoch),
     coords |-> Some([latitude |-> 4389850, longitude |-> 0]),
     contact |-> None,
     bdnb |-> None]

\* a directory record 0.00004 degree north of the equator
PjNearZero ==
    [address |-> Some(AddrFoch),
     coords |-> Some([latitude |-> 4, longitude |-> 190650]),
     contact |-> None,
     bdnb |-> None]

ZeroEntUniverse == {EntZeroLat, EntNearZero, EntZeroLon}

ZeroPjUniverse == {PjZeroLat, PjZeroLon, PjNearZero, PjScenario, PjNoAddr}

InitZeroFusion ==
    /\ WorkerIdle
    /\ pj_results \in SeqsUpTo(ZeroPjUniverse, MaxPJ)
    /\ entreprise_results \in SeqsUpTo(ZeroEntUniverse, MaxEnt)
    /\ entreprise_by_addr = <<>>
    /\ entreprise_by_coords = <<>>
    /\ matched_ent_keys = {}
    /\ fused = <<>>
    /\ origin = <<>>
    /\ pc = "index"
    /\ i = 1
    /\ call = [fn |-> "fuse_results", args |-> <<>>]
    /\ result = None
    /\ in_zone = <<>>
    /\ out_zone_interesting = <<>>
    /\ out_zone_excluded = <<>>

\* fused entries on the meridian of Greenwich, with and without coordinates
ZeroFusedUniverse ==
    {[e EXCEPT !.latitude = lat, !.longitude = lon] :
         e \in {FusedDull, FusedInteresting},
         lat \in {None, Some(0), Some(CenterLat)}, lon \in {None, Some(0)}}

\* the filter called with a centre on the meridian of Greenwich
InitZeroFilter ==
    /\ WorkerIdle
    /\ fused \in SeqsUpTo(ZeroFusedUniverse, MaxFused)
    /\ \E radius_km \in RadiusUniverse :
           call = Call("filter_results_by_zone_and_interest", <<CenterLat, 0, radius_km>>)
    /\ result = None
    /\ in_zone = <<>>
    /\ out_zone_interesting = <<>>
    /\ out_zone_excluded = <<>>
    /\ pc = "filter"
    /\ i = 1
    /\ pj_results = <<>>
    /\ entreprise_results = <<>>
    /\ entreprise_by_addr = <<>>
    /\ entreprise_by_coords = <<>>
    /\ matched_ent_keys = {}
    /\ origin = <<>>

InitZero == InitZeroFusion \/ InitZeroFilter

NextZero == Next \/ NextFilter

SpecZero == InitZero /\ [][NextZero]_vars

\* one of the coordinates of the record is 0
ZeroCoordinate(lat, lon) == lat = Some(0) \/ lon = Some(0)

\* the coordinates of a directory record
PjLatitude(pj) == IF TruthyDict(pj.coords) THEN Get(pj.coords[1], "latitude") ELSE None

PjLongitude(pj) == IF TruthyDict(pj.coords) THEN Get(pj.coords[1], "longitude") ELSE None

\* C30: fuse_results treats a latitude or a longitude equal to 0 as absent:
\* such a registry record is not in the coordinate index, such a directory
\* record is never matched by its coordinates, and a registry coordinate 0
\* never fills a missing coordinate of a fused entry.  The filter treats only
\* None as missing: it computes a distance for a coordinate 0.
C30_ZeroCoordinates ==
    /\ call.fn = "fuse_results" =>
           /\ \A key \in DOMAIN entreprise_by_coords :
                  LET ent == entreprise_results[entreprise_by_coords[key]]
                  IN  ~ZeroCoordinate(ent.latitude, ent.longitude)
           /\ \A k \in 1..Len(fused) :
                  origin[k].pj # 0 =>
                      LET pj == pj_results[origin[k].pj]
                      IN  /\ (/\ ZeroCoordinate(PjLatitude(pj), PjLongitude(pj))
                              /\ origin[k].ent # 0)
                                 => _make_address_key(pj.address[1])
                                      = _normalize_address_key(
                                            entreprise_results[origin[k].ent].address[1])
                          /\ (/\ PjLatitude(pj) = None
                              /\ origin[k].ent # 0
                              /\ entreprise_results[origin[k].ent].latitude = Some(0))
                                 => fused[k].latitude = None
                          /\ (/\ PjLongitude(pj) = None
                              /\ origin[k].ent # 0
                              /\ entreprise_results[origin[k].ent].longitude = Some(0))
                                 => fused[k].longitude = None
    /\ (call.fn = "filter_results_by_zone_and_interest" /\ pc \in {"filter", "return"}) =>
           \A k \in Filtered :
               (fused[k].latitude # None /\ fused[k].longitude # None)
                   => /\ "_distance_to_center" \in DOMAIN fused[k]
                      /\ fused[k]["_distance_to_center"] = ArcToCenter(fused[k])
                      /\ fused[k]["_filter_status"]
                             \notin {"no_coords_but_interesting", "no_coords_excluded"}

\* a directory record on the equator is left unmatched although the
\* coordinate index holds a registry record under its rounded coordinates
C30_Witness ==
    /\ call.fn = "fuse_results"
    /\ pc = "done"
    /\ \E k \in 1..Len(fused) :
           /\ origin[k].pj # 0
           /\ origin[k].ent = 0
           /\ PjLatitude(pj_results[origin[k].pj]) = Some(0)
           /\ <<Round4(0), Round4(PjLongitude(pj_results[origin[k].pj])[1])>>
                  \in DOMAIN entreprise_by_coords
           /\ fused[k].latitude = Some(0)

---------------------------------------------------------------------------
(* CompleteWorkflowWorker (src/src/ui.py): run() in the worker thread, and *)
(* cancel() called from the thread of the window.  The stages that go to   *)
(* the network return one of a few results; fuse_results, the filter and   *)
(* save_filtered_results run as modelled above, on what the stages found.  *)

MaxStreets == 2

\* self.radius_km
self_radius_km == 1

\* the coordinates address_to_coordinates finds: those of PjCoords
Geocoded == [latitude |-> 4389850, longitude |-> 190650]

StreetAlger == [name |-> "Rue Alger"]

\* what process_street finds in one street
StreetResults == {<<>>, <<PjScenario>>, <<PjCoords>>, <<PjNoAddr>>}

\* what process_pj_results returns
EnrichedResults == {<<>>, <<EntScenario>>, <<EntPlain>>}

InitWorker ==
    /\ _cancelled = FALSE
    /\ stage = "geocoding"
    /\ emitted = <<>>
    /\ streets = <<>>
    /\ coords = None
    /\ call = Call("run", <<>>)
    /\ result = None
    /\ pc = "run"
    /\ i = 1
    /\ pj_results = <<>>
    /\ entreprise_results = <<>>
    /\ entreprise_by_addr = <<>>
    /\ entreprise_by_coords = <<>>
    /\ matched_ent_keys = {}
    /\ fused = <<>>
    /\ origin = <<>>
    /\ in_zone = <<>>
    /\ out_zone_interesting = <<>>
    /\ out_zone_excluded = <<>>

\* what the worker calls leave alone
fusion == <<pj_results, entreprise_results, entreprise_by_addr, entreprise_by_coords,
            matched_ent_keys, fused, origin>>

lists == <<in_zone, out_zone_interesting, out_zone_excluded>>

\* lines 80-81: cancel(), while the cancel button is enabled
cancel ==
    /\ stage \notin {"idle", "end"}
    /\ _cancelled = FALSE
    /\ _cancelled' = TRUE
    /\ UNCHANGED <<stage, emitted, streets, coords, fusion, lists, pc, i, call, result>>

\* lines 103-110: address_to_coordinates; without coordinates, error and return
Geocoding ==
    /\ stage = "geocoding"
    /\ \E found \in {None, Some(Geocoded)} :
           /\ coords' = found
           /\ IF found = None
              THEN /\ emitted' = Append(emitted, "error")
                   /\ stage' = "end"
              ELSE /\ emitted' = emitted
                   /\ stage' = "checkpoint1"
    /\ UNCHANGED <<_cancelled, streets, fusion, lists, pc, i, call, result>>

\* the stage that follows each if self._cancelled: return
AfterCheckpoint ==
    [checkpoint1 |-> "streets", checkpoint2 |-> "load_streets",
     checkpoint3 |-> "entreprises", checkpoint4 |-> "fusion"]

\* lines 112-113, 129-130, 159-160, 191-192: if self._cancelled: return
Checkpoint ==
    /\ stage \in DOMAIN AfterCheckpoint
    /\ stage' = IF _cancelled THEN "end" ELSE AfterCheckpoint[stage]
    /\ UNCHANGED <<_cancelled, emitted, streets, coords, fusion, lists, pc, i, call, result>>

\* lines 121-127: get_streets_in_area writes the streets to dir_street
GetStreetsInArea ==
    /\ stage = "streets"
    /\ stage' = "checkpoint2"
    /\ UNCHANGED <<_cancelled, emitted, streets, coords, fusion, lists, pc, i, call, result>>

\* lines 133-146: load_all_streets_from_dir; without streets, error and return
LoadStreets ==
    /\ stage = "load_streets"
    /\ \E loaded \in SeqsUpTo({StreetAlger}, MaxStreets) :
           /\ streets' = loaded
           /\ IF loaded = <<>>
              THEN /\ emitted' = Append(emitted, "error")
                   /\ stage' = "end"
              ELSE /\ emitted' = emitted
                   /\ stage' = "pj_scrapping"
    /\ i' = 1
    /\ pj_results' = <<>>
    /\ UNCHANGED <<_cancelled, coords, entreprise_results, entreprise_by_addr,
                   entreprise_by_coords, matched_ent_keys, fused, origin, lists,
                   pc, call, result>>

\* lines 149-157: one street of the loop, or break when cancelled, or the
\* end of the loop; close_browser in every case
ProcessStreet ==
    /\ stage = "pj_scrapping"
    /\ IF i <= Len(streets) /\ ~_cancelled
       THEN /\ \E results \in StreetResults : pj_results' = pj_results \o results
            /\ i' = i + 1
            /\ stage' = stage
       ELSE /\ stage' = "checkpoint3"
            /\ UNCHANGED <<pj_results, i>>
    /\ UNCHANGED <<_cancelled, emitted, streets, coords, entreprise_results,
                   entreprise_by_addr, entreprise_by_coords, matched_ent_keys, fused,
                   origin, lists, pc, call, result>>

\* lines 168-189: process_pj_results if pj_results is not empty
Entreprises ==
    /\ stage = "entreprises"
    /\ IF pj_results # <<>>
       THEN \E pj_enriched \in EnrichedResults : entreprise_results' = pj_enriched
       ELSE entreprise_results' = <<>>
    /\ stage' = "checkpoint4"
    /\ UNCHANGED <<_cancelled, emitted, streets, coords, pj_results, entreprise_by_addr,
                   entreprise_by_coords, matched_ent_keys, fused, origin, lists,
                   pc, i, call, result>>

\* lines 246-248: a stage that goes to the network raises: error
Raise ==
    /\ stage \in {"geocoding", "streets", "pj_scrapping", "entreprises"}
    /\ emitted' = Append(emitted, "error")
    /\ stage' = "end"
    /\ UNCHANGED <<_cancelled, streets, coords, fusion, lists, pc, i, call, result>>

\* line 197: fuse_results(pj_results, entreprise_results, logger) is called
Fusion ==
    /\ stage = "fusion"
    /\ stage' = "fusing"
    /\ call' = [fn |-> "fuse_results", args |-> <<>>]
    /\ pc' = "index"
    /\ i' = 1
    /\ UNCHANGED <<_cancelled, emitted, streets, coords, fusion, lists, result>>

\* a variant of Filtering that looks at the flag before the filter
FilteringChecked ==
    /\ stage = "fusing"
    /\ pc = "done"
    /\ IF _cancelled
       THEN /\ stage' = "end"
            /\ UNCHANGED <<call, pc, i>>
       ELSE /\ stage' = "filtering"
            /\ call' = Call("filter_results_by_zone_and_interest",
                            <<coords[1].latitude, coords[1].longitude, self_radius_km>>)
            /\ pc' = "filter"
            /\ i' = 1
    /\ UNCHANGED <<_cancelled, emitted, streets, coords, fusion, lists, result>>

\* lines 204-210: fuse_results has returned, the filter is called on
\* fused_data with the coordinates of the address
Filtering ==
    /\ stage = "fusing"
    /\ pc = "done"
    /\ stage' = "filtering"
    /\ call' = Call("filter_results_by_zone_and_interest",
                    <<coords[1].latitude, coords[1].longitude, self_radius_km>>)
    /\ pc' = "filter"
    /\ i' = 1
    /\ UNCHANGED <<_cancelled, emitted, streets, coords, fusion, lists, result>>

\* fused_to_map_features: the entries that have both coordinates
fused_to_map_features(fused_data) ==
    SelectSeq(fused_data,
              LAMBDA k : fused[k].latitude # None /\ fused[k].longitude # None)

\* lines 223-244: save_filtered_results has returned; the map is built if
\* there are features, then finished_success
Map ==
    /\ stage = "filtering"
    /\ pc = "saved"
    /\ emitted' = emitted
                    \o (IF fused_to_map_features(result[1]) # <<>>
                        THEN <<"map_ready">> ELSE <<>>)
                    \o <<"finished_success">>
    /\ stage' = "end"
    /\ UNCHANGED <<_cancelled, streets, coords, fusion, lists, pc, i, call, result>>

\* the steps of run()
Run ==
    \/ Geocoding
    \/ Checkpoint
    \/ GetStreetsInArea
    \/ LoadStreets
    \/ ProcessStreet
    \/ Entreprises
    \/ Fusion
    \/ Next
    \/ Filtering
    \/ NextFilter
    \/ Map

NextWorker ==
    \/ cancel
    \/ Raise
    \/ Run

SpecWorker == InitWorker /\ [][NextWorker]_vars

\* the steps of run() outside fuse_results
Stages ==
    \/ Geocoding
    \/ Checkpoint
    \/ GetStreetsInArea
    \/ LoadStreets
    \/ ProcessStreet
    \/ Entreprises
    \/ Fusion
    \/ Filtering
    \/ NextFilter
    \/ Map

\* the control flow of the three for loops of fuse_results (fusion.py 201,
\* 217, 310): an iteration goes to the next element, the end of a list goes
\* to the next loop or to the return
ForLoops ==
    /\ pc \in {"index", "pj", "ent"}
    /\ LET n == IF pc = "pj" THEN Len(pj_results) ELSE Len(entreprise_results)
       IN  IF i <= n
           THEN /\ i' = i + 1
                /\ pc' = pc
           ELSE /\ pc' = (IF pc = "index" THEN "pj"
                          ELSE IF pc = "pj" THEN "ent" ELSE "done")
                /\ i' = (IF pc = "ent" THEN i ELSE 1)

\* the worker thread keeps running: a stage that can make a step makes
\* it, and the for loops of fuse_results go on to their next iteration
SpecWorkerFair == SpecWorker /\ WF_vars(Stages) /\ WF_<<pc, i>>(ForLoops)

\* run() has returned without a signal
SilentReturn == stage = "end" /\ emitted = <<>>

\* run() has emitted finished_success, last
FinishedSuccess ==
    stage = "end" /\ emitted # <<>> /\ emitted[Len(emitted)] = "finished_success"

====
